---- MODULE Spec2Model ----
(***************************************************************************)
(* Model of the storefront's compact pagination window builder             *)
(* (utils/pagination: buildCompactPagination) and of one call to it.       *)
(*                                                                         *)
(* A PaginationItem is `number | 'ellipsis'`.  It is written here as a     *)
(* record with a tag, so that a page number and the gap marker can be      *)
(* compared with each other whatever the number is.                        *)
(***************************************************************************)
EXTENDS Integers, Sequences, FiniteSets, TLC

\* Bounds of the explored inputs.
MaxTotalPages == 21
MaxMaxVisible == 8
Slack == 2
MaxItems == 50
MaxPending == 2
MaxLikeRequests == 2
MaxPresses == 3
MaxLoads == 3
MaxDays == 2
MaxCatalog == 20

VARIABLES
    currentPage,   \* argument currentPage of the call
    totalPages,    \* argument totalPages of the call
    maxVisible,    \* argument maxVisible of the call
    pc,            \* "start" before the call, "done" once it has returned or thrown
    threw,         \* TRUE iff the call ended by throwing
    result,        \* the returned PaginationItem[] (<<>> before the call)
    localCalled,   \* the pages whose own two-argument copy has been called
    localResult,   \* page -> what its own copy returned (<<>> before the call)
    screen,        \* the paginated screen that is mounted ("none": no screen)
    listLength,    \* length of the screen's filtered list
    screenPage,    \* the screen's currentPage state (useState(1))
    paginationLimit, \* usePaginationLimit(): 5 on a narrow window, 7 otherwise
    bannerStorage, \* localStorage item '@fl_store_banner_products'
    statusStorage, \* localStorage item '@fl_store_product_status'
    flagRead,      \* the last flag read: which function, its argument, its value
    bannerHistory, \* history: id -> the last banner write for that id
    statusHistory, \* history: id -> the last setProductEnabledStatus for that id
    route,         \* the mounted route: "none", "/", "/producto/:id", "/admin/productos"
    serverProducts, \* backend: id -> the product's isNew and isEnabled fields
    pageProducts,  \* the products state of the mounted HomePage / ManageProductsPage
    detailProduct, \* ProductDetailPage's product state: an id, or "none" (null)
    tokenStorage,  \* localStorage item '@fl_store_admin_token'
    authStorage,   \* localStorage item '@fl_store_auth' is present
    location,      \* the router's location.pathname
    isAdmin,       \* StoreHeader's isAdmin state
    inFlight,      \* the admin request awaiting its response, or NoRequest
    lastCall,      \* history: what the step just taken did of an admin operation
    loggedOut,     \* history: the logout control used since the last setToken
    adminScreen,   \* the admin list mounted: ManageProductsPage or ManageReviewsPage
    adminList,     \* its products / reviews state, in display order
    pendingUpdates, \* the update requests awaiting their response
    lastUpdate,    \* history: the update the step just taken resolved
    likingReviewId, \* CustomerReviewsSection's likingReviewId state ('' = <<>>)
    likesInFlight, \* review id -> its setReviewLike requests awaiting a response
    reviewLikeOverrides, \* CustomerReviewsSection's reviewLikeOverrides state
    timerRef,      \* StoreHeader's timerRef.current: a timer id, or 0 for null
    timers,        \* the window's timers: id -> state, time left, history of release
    today,         \* the Ecuador calendar day, counted from 1
    lastVisitDay,  \* localStorage item '@fl_store_last_visit_day': a day, 0 if absent
    visitLoads,    \* HomePage load -> where its loadVisits is, and the day it read
    registerVisits, \* history: day -> the registerVisit requests sent on that day
    homeProducts,  \* HomePage's products state
    homeLoading,   \* HomePage's loading state
    searchText,    \* HomePage's searchText state
    selectedCategory, \* HomePage's selectedCategory state
    sortField,     \* HomePage's sortField state
    sortDirection, \* HomePage's sortDirection state
    lastClick,     \* history: the pager button the step just taken clicked
    adminCategories,  \* AdminPage's categories state
    fetchedProducts,  \* what getProducts returns to AdminPage's loadCategories
    categoriesLoaded, \* loadCategories has resolved
    submitting,       \* the handleSubmit waiting for uploadImage / addProduct
    lastCategoryStep, \* history: the change of categories the step just taken made
    rawBanner,        \* what localStorage holds under '@fl_store_banner_products'
    rawStatus,        \* what localStorage holds under '@fl_store_product_status'
    rawRead           \* history: the flag read the step just taken made

paginationVars == <<currentPage, totalPages, maxVisible, pc, threw, result>>
copyVars == <<localCalled, localResult>>
screenVars == <<screen, listLength, screenPage, paginationLimit>>
flagVars == <<bannerStorage, statusStorage, flagRead, bannerHistory, statusHistory>>
storeVars == <<route, serverProducts, pageProducts, detailProduct>>
authVars == <<tokenStorage, authStorage, location, isAdmin, inFlight, lastCall,
              loggedOut>>
listVars == <<adminScreen, adminList, pendingUpdates, lastUpdate>>
likeVars == <<likingReviewId, likesInFlight, reviewLikeOverrides>>
pressVars == <<timerRef, timers>>
visitVars == <<today, lastVisitDay, visitLoads, registerVisits>>
catalogVars == <<homeProducts, homeLoading, searchText, selectedCategory, sortField,
                 sortDirection, lastClick>>
categoryVars == <<adminCategories, fetchedProducts, categoriesLoaded, submitting,
                  lastCategoryStep>>
rawVars == <<rawBanner, rawStatus, rawRead>>
siteVars == <<authVars, listVars, likeVars, pressVars, visitVars, catalogVars,
              categoryVars, rawVars>>
vars == <<paginationVars, copyVars, screenVars, flagVars, storeVars, siteVars>>

----------------------------------------------------------------------------
\* PaginationItem = number | 'ellipsis'
Page(n) == [type |-> "page", page |-> n]
Ellipsis == [type |-> "ellipsis", page |-> 0]

\* new Set / Set.prototype.add: insertion order is kept, a value already
\* present is not added again.
SetAdd(set, value) ==
    IF \E i \in 1..Len(set) : set[i] = value THEN set ELSE Append(set, value)

\* Array.from({ length }): ToLength clamps a negative length to 0.
ToLength(n) == IF n < 0 THEN 0 ELSE n

\* if (totalPages <= maxVisible)
NoCompactionOff(tp, mv) == tp < mv
NoCompaction(tp, mv) == tp <= mv

\* Array.from({ length: totalPages }, (_, index) => index + 1)
AllPagesShort(tp) == [index \in 1..ToLength(tp - 1) |-> Page(index)]
AllPages(tp) == [index \in 1..ToLength(tp) |-> Page(index)]

\* new Set<number>([1, totalPages, currentPage, currentPage - 1, currentPage + 1])
InitialPageSetNoLast(cp, tp) ==
    SetAdd(SetAdd(SetAdd(<<1>>, cp), cp - 1), cp + 1)
InitialPageSet(cp, tp) ==
    SetAdd(SetAdd(SetAdd(SetAdd(<<1>>, tp), cp), cp - 1), cp + 1)

\* if (currentPage <= 3) { add 2, 3, 4 }
AddStartBandNarrow(pageSet, cp) ==
    IF cp <= 3 THEN SetAdd(SetAdd(pageSet, 2), 3) ELSE pageSet
AddStartBandWide(pageSet, cp) ==
    IF cp <= 3 THEN SetAdd(SetAdd(SetAdd(SetAdd(pageSet, 2), 3), 4), 5) ELSE pageSet
AddStartBandInRange(pageSet, cp) ==
    IF cp >= 1 /\ cp <= 3 THEN SetAdd(SetAdd(SetAdd(pageSet, 2), 3), 4) ELSE pageSet
AddStartBandShort(pageSet, cp) ==
    IF cp <= 3 THEN SetAdd(SetAdd(pageSet, 2), 4) ELSE pageSet
AddStartBand(pageSet, cp) ==
    IF cp <= 3 THEN SetAdd(SetAdd(SetAdd(pageSet, 2), 3), 4) ELSE pageSet

\* if (currentPage >= totalPages - 2) { add totalPages - 1, - 2, - 3 }
AddEndBandWide(pageSet, cp, tp) ==
    IF cp >= tp - 2
    THEN SetAdd(SetAdd(SetAdd(SetAdd(pageSet, tp - 1), tp - 2), tp - 3), tp - 4)
    ELSE pageSet
AddEndBandAlways(pageSet, cp, tp) ==
    SetAdd(SetAdd(SetAdd(pageSet, tp - 1), tp - 2), tp - 3)
AddEndBandNarrow(pageSet, cp, tp) ==
    IF cp >= tp - 2 THEN SetAdd(SetAdd(pageSet, tp - 1), tp - 2) ELSE pageSet
AddEndBand(pageSet, cp, tp) ==
    IF cp >= tp - 2
    THEN SetAdd(SetAdd(SetAdd(pageSet, tp - 1), tp - 2), tp - 3)
    ELSE pageSet

\* .filter((page) => page >= 1 && page <= totalPages)
FilterInRangeNoFloor(pages, tp) ==
    LET Keep(page) == page <= tp IN SelectSeq(pages, Keep)
FilterInRange(pages, tp) ==
    LET Keep(page) == page >= 1 /\ page <= tp IN SelectSeq(pages, Keep)

\* .sort((first, second) => first - second)
Compare(first, second) == first - second

RECURSIVE InsertSorted(_, _)
InsertSorted(page, sorted) ==
    IF sorted = <<>> THEN <<page>>
    ELSE IF Compare(page, Head(sorted)) < 0 THEN <<page>> \o sorted
    ELSE <<Head(sorted)>> \o InsertSorted(page, Tail(sorted))

RECURSIVE SortPages(_)
SortPages(pages) ==
    IF pages = <<>> THEN <<>>
    ELSE InsertSorted(Head(pages), SortPages(Tail(pages)))

\* previous && page - previous > 1, with previous = sortedPages[index - 1]:
\* undefined at the first index and 0 are both falsy.
GapBeforeLoose(sortedPages, index) ==
    /\ index > 1
    /\ sortedPages[index - 1] # 0
    /\ sortedPages[index] - sortedPages[index - 1] >= 1
GapBeforeStrict(sortedPages, index) ==
    /\ index > 1
    /\ sortedPages[index - 1] # 0
    /\ sortedPages[index] - sortedPages[index - 1] > 2
GapBefore(sortedPages, index) ==
    /\ index > 1
    /\ sortedPages[index - 1] # 0
    /\ sortedPages[index] - sortedPages[index - 1] > 1

\* sortedPages.forEach((page, index) => { ...push('ellipsis')...; push(page) })
RECURSIVE ForEachPage(_, _, _)
ForEachPage(sortedPages, index, compactItems) ==
    IF index > Len(sortedPages) THEN compactItems
    ELSE LET withGap == IF GapBefore(sortedPages, index)
                        THEN Append(compactItems, Ellipsis)
                        ELSE compactItems
         IN ForEachPage(sortedPages, index + 1,
                        Append(withGap, Page(sortedPages[index])))

buildCompactPagination(cp, tp, mv) ==
    IF NoCompaction(tp, mv) THEN AllPages(tp)
    ELSE LET pageSet == AddEndBand(AddStartBand(InitialPageSet(cp, tp), cp), cp, tp)
             sortedPages == SortPages(FilterInRange(pageSet, tp))
         IN ForEachPage(sortedPages, 1, <<>>)

----------------------------------------------------------------------------
\* The page-local copies: const buildCompactPagination = (currentPage,
\* totalPages) in HomePage, ManageProductsPage and AdminPage, each with its
\* own COMPACT_PAGINATION_LIMIT.  The three texts are the same line for line.
HomePage_COMPACT_PAGINATION_LIMIT == 7
ManageProductsPage_COMPACT_PAGINATION_LIMIT == 7
AdminPage_COMPACT_PAGINATION_LIMIT == 7

HomePage_buildCompactPaginationNoEndBand(cp, tp) ==
    IF tp <= HomePage_COMPACT_PAGINATION_LIMIT
    THEN [index \in 1..ToLength(tp) |-> Page(index)]
    ELSE LET seeded == SetAdd(SetAdd(SetAdd(SetAdd(<<1>>, tp), cp), cp - 1), cp + 1)
             pageSet == IF cp <= 3 THEN SetAdd(SetAdd(SetAdd(seeded, 2), 3), 4)
                        ELSE seeded
             sortedPages == SortPages(FilterInRange(pageSet, tp))
         IN ForEachPage(sortedPages, 1, <<>>)
HomePage_buildCompactPagination(cp, tp) ==
    IF tp <= HomePage_COMPACT_PAGINATION_LIMIT
    THEN [index \in 1..ToLength(tp) |-> Page(index)]
    ELSE LET seeded == SetAdd(SetAdd(SetAdd(SetAdd(<<1>>, tp), cp), cp - 1), cp + 1)
             atStart == IF cp <= 3 THEN SetAdd(SetAdd(SetAdd(seeded, 2), 3), 4)
                        ELSE seeded
             pageSet == IF cp >= tp - 2
                        THEN SetAdd(SetAdd(SetAdd(atStart, tp - 1), tp - 2), tp - 3)
                        ELSE atStart
             sortedPages == SortPages(FilterInRange(pageSet, tp))
         IN ForEachPage(sortedPages, 1, <<>>)

ManageProductsPage_buildCompactPagination(cp, tp) ==
    IF tp <= ManageProductsPage_COMPACT_PAGINATION_LIMIT
    THEN [index \in 1..ToLength(tp) |-> Page(index)]
    ELSE LET seeded == SetAdd(SetAdd(SetAdd(SetAdd(<<1>>, tp), cp), cp - 1), cp + 1)
             atStart == IF cp <= 3 THEN SetAdd(SetAdd(SetAdd(seeded, 2), 3), 4)
                        ELSE seeded
             pageSet == IF cp >= tp - 2
                        THEN SetAdd(SetAdd(SetAdd(atStart, tp - 1), tp - 2), tp - 3)
                        ELSE atStart
             sortedPages == SortPages(FilterInRange(pageSet, tp))
         IN ForEachPage(sortedPages, 1, <<>>)

AdminPage_buildCompactPagination(cp, tp) ==
    IF tp <= AdminPage_COMPACT_PAGINATION_LIMIT
    THEN [index \in 1..ToLength(tp) |-> Page(index)]
    ELSE LET seeded == SetAdd(SetAdd(SetAdd(SetAdd(<<1>>, tp), cp), cp - 1), cp + 1)
             atStart == IF cp <= 3 THEN SetAdd(SetAdd(SetAdd(seeded, 2), 3), 4)
                        ELSE seeded
             pageSet == IF cp >= tp - 2
                        THEN SetAdd(SetAdd(SetAdd(atStart, tp - 1), tp - 2), tp - 3)
                        ELSE atStart
             sortedPages == SortPages(FilterInRange(pageSet, tp))
         IN ForEachPage(sortedPages, 1, <<>>)

CopyPages == {"HomePage", "ManageProductsPage", "AdminPage"}
LocalCopy(page, cp, tp) ==
    CASE page = "HomePage" -> HomePage_buildCompactPagination(cp, tp)
      [] page = "ManageProductsPage" -> ManageProductsPage_buildCompactPagination(cp, tp)
      [] page = "AdminPage" -> AdminPage_buildCompactPagination(cp, tp)

CopiesIdle ==
    /\ localCalled = {}
    /\ localResult = [page \in CopyPages |-> <<>>]

\* The paginated screens.  A list is kept by its length: the screens read
\* nothing else of it to compute their pages.
Screens == {"HomePage", "ManageProductsPage", "ManageReviewsPage", "AdminPage"}

HomePage_PRODUCTS_PER_PAGE == 6
ManageProductsPage_PRODUCTS_PER_PAGE == 4
REVIEWS_PER_PAGE == 5
VISITS_PER_PAGE == 5

PerPage(scr) ==
    CASE scr = "HomePage" -> HomePage_PRODUCTS_PER_PAGE
      [] scr = "ManageProductsPage" -> ManageProductsPage_PRODUCTS_PER_PAGE
      [] scr = "ManageReviewsPage" -> REVIEWS_PER_PAGE
      [] scr = "AdminPage" -> VISITS_PER_PAGE

MathMax(a, b) == IF a >= b THEN a ELSE b
MathMin(a, b) == IF a <= b THEN a ELSE b
\* Math.ceil(length / perPage), length >= 0
MathCeilDiv(length, perPage) == (length + perPage - 1) \div perPage

\* Math.max(1, Math.ceil(list.length / PER_PAGE))
TotalPagesOfNoFloor(length, perPage) == MathCeilDiv(length, perPage)
TotalPagesOf(length, perPage) == MathMax(1, MathCeilDiv(length, perPage))

\* Math.min(currentPage, totalPages)
SafePageOf(page, total) == MathMin(page, total)

\* getPaginationLimitByWidth: width < 640 ? 5 : 7
PaginationLimits == {5, 7}

\* The limit a screen compacts with: ManageReviewsPage passes the hook's
\* value to the shared function, the others use their own copy.
LimitOf(scr, limit) ==
    CASE scr = "HomePage" -> HomePage_COMPACT_PAGINATION_LIMIT
      [] scr = "ManageProductsPage" -> ManageProductsPage_COMPACT_PAGINATION_LIMIT
      [] scr = "AdminPage" -> AdminPage_COMPACT_PAGINATION_LIMIT
      [] scr = "ManageReviewsPage" -> limit

PageNumbersOf(scr, safe, total, limit) ==
    IF scr = "ManageReviewsPage"
    THEN buildCompactPagination(safe, total, limit)
    ELSE LocalCopy(scr, safe, total)

\* A render: totalPages, safeCurrentPage and the page numbers are recomputed
\* from the state the handler left; the call's arguments and result are kept
\* in the call's variables.
Render(scr, length, page, limit) ==
    LET total == TotalPagesOf(length, PerPage(scr))
        safe == SafePageOf(page, total)
    IN /\ totalPages' = total
       /\ currentPage' = safe
       /\ maxVisible' = LimitOf(scr, limit)
       /\ result' = PageNumbersOf(scr, safe, total, limit)
       /\ threw' = FALSE
       /\ pc' = "done"

ScreensIdle ==
    /\ screen = "none"
    /\ listLength = 0
    /\ screenPage = 1
    /\ paginationLimit = 7

----------------------------------------------------------------------------
\* The flag maps kept in localStorage (utils/bannerSettings, utils/productStatus).
\*
\* A map (Record<string, boolean>) is its properties in insertion order, each
\* [key, value]; the stored item is the JSON text, kept as its members in
\* order, each [key, text] with the literal "true" or "false".
ProductIds == {"p1", "p2", "p3"}

NoItem == [present |-> FALSE, members |-> <<>>]
Item(members) == [present |-> TRUE, members |-> members]

\* JSON.stringify(data)
JSONstringify(map) ==
    [i \in 1..Len(map) |->
        [key |-> map[i].key, text |-> IF map[i].value THEN "true" ELSE "false"]]
\* JSON.parse(raw)
JSONparse(members) ==
    [i \in 1..Len(members) |->
        [key |-> members[i].key, value |-> members[i].text = "true"]]

\* productId in map
HasKey(map, id) == \E i \in 1..Len(map) : map[i].key = id
\* map[productId]
MapGet(map, id) == map[CHOOSE i \in 1..Len(map) : map[i].key = id].value
\* map[productId] = value
MapSet(map, id, value) ==
    IF HasKey(map, id)
    THEN [i \in 1..Len(map) |->
            IF map[i].key = id THEN [key |-> id, value |-> value] ELSE map[i]]
    ELSE Append(map, [key |-> id, value |-> value])
\* delete map[productId]
MapDelete(map, id) ==
    LET Other(entry) == entry.key # id IN SelectSeq(map, Other)

\* readBannerMap / readProductStatusMap: getItem, `if (!raw) return {}`,
\* JSON.parse.
ReadMap(item) == IF ~item.present THEN <<>> ELSE JSONparse(item.members)
\* writeBannerMap / writeProductStatusMap: setItem(KEY, JSON.stringify(data))
WriteMap(map) == Item(JSONstringify(map))

readBannerMap == ReadMap(bannerStorage)
readProductStatusMap == ReadMap(statusStorage)

\* getProductBannerFlag(product)
getProductBannerFlag(product) ==
    LET map == readBannerMap
    IN IF HasKey(map, product.id) THEN MapGet(map, product.id) ELSE product.isNew

\* isProductEnabled(productId)
isProductEnabled(productId) ==
    LET map == readProductStatusMap
    IN IF HasKey(map, productId) THEN MapGet(map, productId) ELSE TRUE

\* What setProductBannerFlag stores.
BannerAfterSet(productId, showInBanner) ==
    WriteMap(MapSet(readBannerMap, productId, showInBanner))

\* What removeProductBannerFlag leaves stored.
BannerAfterRemoveNoWrite(productId) == bannerStorage
BannerAfterRemove(productId) ==
    IF HasKey(readBannerMap, productId)
    THEN WriteMap(MapDelete(readBannerMap, productId))
    ELSE bannerStorage

\* What setProductEnabledStatus stores.
StatusAfterSetAlone(productId, enabled) ==
    WriteMap(<<[key |-> productId, value |-> enabled]>>)
StatusAfterSet(productId, enabled) ==
    WriteMap(MapSet(readProductStatusMap, productId, enabled))

NoWrite == [op |-> "none", value |-> FALSE]
NoRead == [fn |-> "none", id |-> "", isNew |-> FALSE, value |-> FALSE]

FlagsIdle ==
    /\ bannerStorage = NoItem
    /\ statusStorage = NoItem
    /\ flagRead = NoRead
    /\ bannerHistory = [id \in ProductIds |-> NoWrite]
    /\ statusHistory = [id \in ProductIds |-> NoWrite]

----------------------------------------------------------------------------
\* The storefront and the product administration in one browser.

\* normalizeProduct on what the backend holds for id.
normalizeProduct(id) ==
    [id |-> id,
     isNew |-> serverProducts[id].isNew,
     isEnabled |-> serverProducts[id].isEnabled # FALSE]

\* apiService.getProducts(): every product, or [] when the request fails.
getProducts == {normalizeProduct(id) : id \in ProductIds}

\* HomePage: products.filter((item) => item.isEnabled !== false); the
\* catalog, the banner news and the review form all draw from it.
visibleProducts == {item \in pageProducts : item.isEnabled # FALSE}
\* HomePage newsItems: visibleProducts.filter(getProductBannerFlag)
bannerProducts == {item \in visibleProducts : getProductBannerFlag(item)}

\* ProductDetailPage.loadProduct: null when the product was not fetched or
\* !isProductEnabled(fetchedProduct.id).
LoadedDetail(id, fetched) ==
    IF ~fetched \/ ~isProductEnabled(id) THEN "none" ELSE id

StoreIdle ==
    /\ route = "none"
    /\ serverProducts = [id \in ProductIds |-> [isNew |-> FALSE, isEnabled |-> TRUE]]
    /\ pageProducts = {}
    /\ detailProduct = "none"

----------------------------------------------------------------------------
\* The admin session (services/api: authService and the admin operations,
\* components/ProtectedRoute, the logout controls).
\*
\* A string is the sequence of its characters.
IsSpace(char) == char = " "

\* String.prototype.trim
RECURSIVE TrimStart(_)
TrimStart(text) ==
    IF text # <<>> /\ IsSpace(Head(text)) THEN TrimStart(Tail(text)) ELSE text
RECURSIVE TrimEnd(_)
TrimEnd(text) ==
    IF text # <<>> /\ IsSpace(text[Len(text)])
    THEN TrimEnd(SubSeq(text, 1, Len(text) - 1))
    ELSE text
Trim(text) == TrimEnd(TrimStart(text))

\* The tokens a login may store: empty, blank, plain, padded.
Tokens == {<<>>, <<" ">>, <<"t">>, <<" ", "t", " ">>}

NoToken == [present |-> FALSE, text |-> <<>>]
StoredToken(text) == [present |-> TRUE, text |-> text]

\* getAuthToken: String(localStorage.getItem(KEY) || '').trim()
getAuthTokenNoTrim(item) == IF item.present THEN item.text ELSE <<>>
getAuthToken(item) == Trim(IF item.present THEN item.text ELSE <<>>)

\* `Bearer ${token}`
Bearer(token) == <<"B", "e", "a", "r", "e", "r", " ">> \o token

\* getAuthHeaders: undefined without a token
NoHeaders == [defined |-> FALSE, Authorization |-> <<>>]
getAuthHeaders(item) ==
    IF getAuthToken(item) = <<>> THEN NoHeaders
    ELSE [defined |-> TRUE, Authorization |-> Bearer(getAuthToken(item))]

\* authService.hasToken: Boolean(getAuthToken())
hasToken(item) == getAuthToken(item) # <<>>

\* The errors an admin operation catches: the Error getRequiredAuthHeaders
\* throws, or the AxiosError of a request, with the response status if any.
MissingTokenError == [isAxiosError |-> FALSE, status |-> "none"]
\* A request ends with a 200, with an error status, or without a response.
Responses == {"200", "401", "403", "network"}
AxiosError(response) ==
    [isAxiosError |-> TRUE,
     status |-> IF response = "network" THEN "none" ELSE response]

\* handleAdminUnauthorized(error): does it call authService.clearToken()
ClearsTokenAlways(error) == error.isAxiosError
ClearsToken(error) == error.isAxiosError /\ error.status = "401"

AdminOps == {"addProduct", "updateProduct", "deleteProduct", "uploadImage",
             "getAdminReviews", "updateReviewStatus", "getAdminMetrics",
             "recalculateAdminMetrics", "getPushTokenStats"}

\* What the catch block of an admin operation returns.
FailureValue(op) ==
    CASE op = "deleteProduct" -> "false"
      [] op = "getAdminReviews" -> "[]"
      [] OTHER -> "null"

Paths == {"/", "/login", "/admin", "/admin/productos", "/admin/comentarios",
          "/admin/editar/:id"}
ProtectedPaths == {"/admin", "/admin/productos", "/admin/comentarios",
                   "/admin/editar/:id"}

\* ProtectedRoute: isAuthenticated ? children : <Navigate to="/login" replace />
ProtectedRoute(path, isAuthenticated) ==
    IF path \in ProtectedPaths /\ ~isAuthenticated THEN "/login" ELSE path

NoRequest == [op |-> "none", Authorization |-> <<>>]
\* lastCall: the operation, whether the step sent a request, the error it
\* caught, the value it resolved to ("pending" while it awaits), and the
\* stored token before the step.
NoCall == [op |-> "none", sent |-> FALSE, error |-> "none", value |-> "none",
           tokenBefore |-> NoToken]

AuthIdle ==
    /\ tokenStorage = NoToken
    /\ authStorage = FALSE
    /\ location = "/"
    /\ isAdmin = FALSE
    /\ inFlight = NoRequest
    /\ lastCall = NoCall
    /\ loggedOut = "no"

----------------------------------------------------------------------------
\* The admin lists (ManageProductsPage, ManageReviewsPage).  An entry keeps
\* its id, the field the update changes, and `version` for the other fields.
ReviewStatuses == {"pending", "approved", "rejected"}
Versions == {"v1", "v2"}

\* prev.map((item) => (item.id === id ? updated : item))
ReplaceEntryMoved(prev, id, updated) ==
    LET Other(item) == item.id # id IN Append(SelectSeq(prev, Other), updated)
ReplaceEntry(prev, id, updated) ==
    [i \in 1..Len(prev) |-> IF prev[i].id = id THEN updated ELSE prev[i]]

\* What apiService.updateProduct / updateReviewStatus may resolve to when the
\* request succeeds: the normalized response of the backend, which holds the
\* value sent and whatever the backend has in the other fields.
ProductResponses(request) ==
    {[id |-> request.id, isEnabled |-> ~request.currentlyEnabled, version |-> version] :
        version \in Versions}
ReviewResponses(request) ==
    {[id |-> request.id, status |-> request.status, version |-> version] :
        version \in Versions}

NoUpdate == [id |-> "none", ok |-> FALSE]

ListsIdle ==
    /\ adminScreen = "none"
    /\ adminList = <<>>
    /\ pendingUpdates = {}
    /\ lastUpdate = NoUpdate

----------------------------------------------------------------------------
\* The like buttons of the public reviews (components/CustomerReviewsSection).
ShownReviews == {"r1", "r2", "r3"}
NoReview == "(none)"
NoOverride == "undefined"

\* const isUpdatingLike = likingReviewId === review.id; disabled={isUpdatingLike}
isUpdatingLike(reviewId) == likingReviewId = reviewId

LikesIdle ==
    /\ likingReviewId = NoReview
    /\ likesInFlight = [reviewId \in ShownReviews |-> 0]
    /\ reviewLikeOverrides = [reviewId \in ShownReviews |-> NoOverride]

----------------------------------------------------------------------------
\* The logo long press (components/StoreHeader: startPress, cancelPress).
\* window.setTimeout returns the ids 1, 2, ...; a timer is "unset" before
\* setTimeout creates it, then "pending" until it is "cleared" or has "fired".
LONG_PRESS_MS == 3000
Delays == {1000, 2000}
TimerIds == 1..MaxPresses

UnsetTimer == [state |-> "unset", left |-> 0, released |-> FALSE]
\* window.setTimeout(callback, 3000)
NewTimer == [state |-> "pending", left |-> LONG_PRESS_MS, released |-> FALSE]

NextTimerId == Cardinality({id \in TimerIds : timers[id].state # "unset"}) + 1

\* window.clearTimeout(id): a pending timer is cleared, any other is left.
ClearTimeout(id) ==
    [other \in TimerIds |->
        IF other = id /\ timers[other].state = "pending"
        THEN [timers[other] EXCEPT !.state = "cleared"]
        ELSE timers[other]]

\* History: a release event marks every press whose 3000 ms have not elapsed.
MarkReleased(all) ==
    [id \in TimerIds |->
        IF all[id].state # "unset" /\ all[id].left > 0
        THEN [all[id] EXCEPT !.released = TRUE]
        ELSE all[id]]

PressIdle ==
    /\ timerRef = 0
    /\ timers = [id \in TimerIds |-> UnsetTimer]

----------------------------------------------------------------------------
\* The daily visit count (HomePage: loadVisits, getEcuadorDayKey).
Loads == 1..MaxLoads
Days == 1..MaxDays

\* getEcuadorDayKey(): the day key of the current instant in America/Guayaquil
getEcuadorDayKey == today

NotLoaded == [at |-> "not mounted", day |-> 0]

\* visitorId && lastTrackedDay !== today  (getOrCreateVisitorId gives an id)
MustRegister(lastTrackedDay, day) == lastTrackedDay # day

VisitsIdle ==
    /\ today = 1
    /\ lastVisitDay = 0
    /\ visitLoads = [load \in Loads |-> NotLoaded]
    /\ registerVisits = [day \in Days |-> 0]

----------------------------------------------------------------------------
\* The HomePage catalog: search, category, sort and pager.

\* String.prototype.toLowerCase, on the letters the model uses.
ToLowerChar(char) ==
    CASE char = "A" -> "a"
      [] char = "B" -> "b"
      [] char = "T" -> "t"
      [] OTHER -> char
toLowerCase(text) == [i \in 1..Len(text) |-> ToLowerChar(text[i])]

\* String.prototype.includes
includes(text, search) ==
    \E start \in 0..(Len(text) - Len(search)) :
        SubSeq(text, start + 1, start + Len(search)) = search

\* first.localeCompare(second, 'es', { sensitivity: 'base' }): case is
\* ignored, a space sorts before the letters.
CharRank(char) ==
    CASE ToLowerChar(char) = " " -> 0
      [] ToLowerChar(char) = "a" -> 1
      [] ToLowerChar(char) = "b" -> 2
      [] ToLowerChar(char) = "d" -> 3
      [] ToLowerChar(char) = "o" -> 4
      [] ToLowerChar(char) = "s" -> 5
      [] ToLowerChar(char) = "t" -> 6
RECURSIVE localeCompare(_, _)
localeCompare(first, second) ==
    IF first = <<>> /\ second = <<>> THEN 0
    ELSE IF first = <<>> THEN 0 - 1
    ELSE IF second = <<>> THEN 1
    ELSE IF CharRank(Head(first)) # CharRank(Head(second))
         THEN CharRank(Head(first)) - CharRank(Head(second))
    ELSE localeCompare(Tail(first), Tail(second))

\* [...items].sort((first, second) => first.localeCompare(second, ...)):
\* Array.prototype.sort is stable.
RECURSIVE InsertCategory(_, _)
InsertCategory(item, sorted) ==
    IF sorted = <<>> THEN <<item>>
    ELSE IF localeCompare(item, Head(sorted)) <= 0 THEN <<item>> \o sorted
    ELSE <<Head(sorted)>> \o InsertCategory(item, Tail(sorted))
RECURSIVE sortCategories(_)
sortCategories(items) ==
    IF items = <<>> THEN <<>>
    ELSE InsertCategory(Head(items), sortCategories(Tail(items)))

\* The Map filled by forEach: the trimmed category of each item, skipped when
\* blank or when its lower-cased key is already there (has / set); the map
\* is kept as its [key, value] entries in insertion order.
RECURSIVE FillCategoryMap(_, _)
FillCategoryMap(items, categoryMap) ==
    IF items = <<>> THEN categoryMap
    ELSE LET categoryValue == Trim(Head(items).category)
             key == toLowerCase(categoryValue)
         IN IF categoryValue = <<>> THEN FillCategoryMap(Tail(items), categoryMap)
            ELSE IF \E i \in 1..Len(categoryMap) : categoryMap[i].key = key
                 THEN FillCategoryMap(Tail(items), categoryMap)
            ELSE FillCategoryMap(Tail(items),
                                 Append(categoryMap, [key |-> key, value |-> categoryValue]))
\* Array.from(categoryMap.values())
MapValues(categoryMap) == [i \in 1..Len(categoryMap) |-> categoryMap[i].value]

\* The products the backend may return: product i of a catalog of n.
CatalogProduct(i) ==
    [id |-> i,
     name |-> IF i % 2 = 0 THEN <<"a", "b">> ELSE <<"B", "a">>,
     category |-> CASE i % 3 = 0 -> <<"a">>
                    [] i % 3 = 1 -> <<" ", "A", " ">>
                    [] OTHER -> IF i % 4 = 0 THEN <<" ">> ELSE <<"b">>,
     isEnabled |-> i % 5 # 0]
Catalog(n) == [i \in 1..n |-> CatalogProduct(i)]

SearchTexts == {<<>>, <<"a">>, <<"A", "b">>, <<"b", "b">>}
Todas == <<"T", "o", "d", "a", "s">>
todas == <<"t", "o", "d", "a", "s">>

\* visibleProducts
HomeVisibleProducts(products) ==
    LET Enabled(item) == item.isEnabled # FALSE IN SelectSeq(products, Enabled)

\* categories: ['Todas', ...sortedCategories]
HomeCategories(products) ==
    <<Todas>> \o sortCategories(MapValues(FillCategoryMap(HomeVisibleProducts(products), <<>>)))

\* normalizedSelectedCategory
NormalizedSelectedCategory(products, selected) ==
    LET normalized == toLowerCase(Trim(selected))
        categories == HomeCategories(products)
        available == {toLowerCase(Trim(categories[i])) : i \in 1..Len(categories)}
    IN IF normalized \in available THEN normalized ELSE todas

\* filteredProducts; sortedProducts is a permutation of it.
HomeFilteredProducts(products, search, selected) ==
    LET normalizedSelectedCategory == NormalizedSelectedCategory(products, selected)
        Matches(item) ==
            /\ includes(toLowerCase(item.name), toLowerCase(search))
            /\ \/ normalizedSelectedCategory = todas
               \/ toLowerCase(Trim(item.category)) = normalizedSelectedCategory
    IN SelectSeq(HomeVisibleProducts(products), Matches)

\* setCurrentPage(1) in the search, category and sort handlers
PageAfterFilterChangeKept(page) == page
PageAfterFilterChange(page) == 1

NoClick == [button |-> "none", displayed |-> 0, total |-> 0]

CatalogIdle ==
    /\ homeProducts = <<>>
    /\ homeLoading = TRUE
    /\ searchText = <<>>
    /\ selectedCategory = Todas
    /\ sortField = "name"
    /\ sortDirection = "asc"
    /\ lastClick = NoClick

----------------------------------------------------------------------------
\* The AdminPage category list.

MaxFetched == 3
CategoryTexts == {<<>>, <<" ">>, <<"a">>, <<" ", "A", " ">>, <<"b">>, <<"B", " ">>}

\* The products getProducts may return, by their category.
FetchedProduct(category) == [category |-> category, isEnabled |-> TRUE]
FetchedLists ==
    UNION {[1..n -> {FetchedProduct(category) : category \in CategoryTexts}] :
               n \in 0..MaxFetched}

\* prev.some((item) => item.trim().toLowerCase() === normalizedCategory.toLowerCase())
alreadyExistsExactly(prev, normalizedCategory) ==
    \E i \in 1..Len(prev) : Trim(prev[i]) = normalizedCategory
alreadyExists(prev, normalizedCategory) ==
    \E i \in 1..Len(prev) : toLowerCase(Trim(prev[i])) = toLowerCase(normalizedCategory)

\* The updater handed to setCategories after a successful addProduct.
AddCategory(prev, normalizedCategory) ==
    IF alreadyExists(prev, normalizedCategory) THEN prev
    ELSE sortCategories(Append(prev, normalizedCategory))

NoSubmit == [pending |-> FALSE, normalizedCategory |-> <<>>]
NoCategoryStep == [op |-> "none", prev |-> <<>>, normalizedCategory |-> <<>>]

CategoriesIdle ==
    /\ adminCategories = <<>>
    /\ fetchedProducts = <<>>
    /\ categoriesLoaded = FALSE
    /\ submitting = NoSubmit
    /\ lastCategoryStep = NoCategoryStep

----------------------------------------------------------------------------
\* The flag maps read from a key the application did not write.
\*
\* The stored item by the kind of its text: absent (getItem gives null), the
\* empty string, text that is not JSON, or the JSON text of null, of a
\* number, a string, a boolean, an array or an object (with its members).
RawKinds ==
    {"absent", "empty", "text", "null", "number", "string", "boolean", "array", "object"}
Raw(kind, members) == [kind |-> kind, members |-> members]
RawContents ==
    {Raw(kind, <<>>) : kind \in RawKinds}
        \cup {Raw("object", <<[key |-> "p1", text |-> "false"]>>)}

\* A JavaScript value by its type; an object or array carries its properties.
EmptyObject == [type |-> "object", properties |-> <<>>]

\* readBannerMap / readProductStatusMap on the stored item raw:
\* `if (!raw) return {}`, JSON.parse inside try / catch, `parsed ?? {}`.
ReadRawMap(raw) ==
    IF raw.kind \in {"absent", "empty"} THEN EmptyObject
    ELSE IF raw.kind = "text" THEN EmptyObject
    ELSE IF raw.kind = "null" THEN EmptyObject
    ELSE [type |-> raw.kind, properties |-> JSONparse(raw.members)]

\* `productId in map` throws a TypeError when map is not an object.
InThrows(map) == map.type \notin {"object", "array"}

Returned(value) == [threw |-> FALSE, value |-> value]
TypeError == [threw |-> TRUE, value |-> FALSE]

\* getProductBannerFlag(product) with raw stored
getProductBannerFlagFrom(product, raw) ==
    LET map == ReadRawMap(raw)
    IN IF InThrows(map) THEN TypeError
       ELSE IF HasKey(map.properties, product.id)
            THEN Returned(MapGet(map.properties, product.id))
       ELSE Returned(product.isNew)

\* isProductEnabled(productId) with raw stored
isProductEnabledFrom(productId, raw) ==
    LET map == ReadRawMap(raw)
    IN IF InThrows(map) THEN TypeError
       ELSE IF HasKey(map.properties, productId)
            THEN Returned(MapGet(map.properties, productId))
       ELSE Returned(TRUE)

NoRawRead == [fn |-> "none", id |-> "", isNew |-> FALSE, threw |-> FALSE, value |-> FALSE]

RawIdle ==
    /\ rawBanner = Raw("absent", <<>>)
    /\ rawStatus = Raw("absent", <<>>)
    /\ rawRead = NoRawRead

SiteIdle ==
    /\ AuthIdle /\ ListsIdle /\ LikesIdle /\ PressIdle /\ VisitsIdle /\ CatalogIdle
    /\ CategoriesIdle /\ RawIdle

----------------------------------------------------------------------------
Init ==
    /\ currentPage \in (0 - Slack)..(MaxTotalPages + Slack)
    /\ totalPages \in (0 - Slack)..MaxTotalPages
    /\ maxVisible \in (0 - Slack)..MaxMaxVisible
    /\ pc = "start"
    /\ threw = FALSE
    /\ result = <<>>
    /\ CopiesIdle
    /\ ScreensIdle
    /\ FlagsIdle
    /\ StoreIdle
    /\ SiteIdle

\* One call: the function has no throw statement, it always returns.
Call ==
    /\ pc = "start"
    /\ result' = buildCompactPagination(currentPage, totalPages, maxVisible)
    /\ threw' = FALSE
    /\ pc' = "done"
    /\ UNCHANGED <<currentPage, totalPages, maxVisible>>
    /\ UNCHANGED <<copyVars, screenVars, flagVars, storeVars, siteVars>>

Next == Call

Spec == Init /\ [][Next]_vars

----------------------------------------------------------------------------
\* The shared function and the three copies called on the same page and
\* page count, the shared one with the limit 7.
InitCopies ==
    /\ currentPage \in (0 - Slack)..(MaxTotalPages + Slack)
    /\ totalPages \in (0 - Slack)..MaxTotalPages
    /\ maxVisible = 7
    /\ pc = "start"
    /\ threw = FALSE
    /\ result = <<>>
    /\ CopiesIdle
    /\ ScreensIdle
    /\ FlagsIdle
    /\ StoreIdle
    /\ SiteIdle

CallLocal(page) ==
    /\ page \notin localCalled
    /\ localCalled' = localCalled \cup {page}
    /\ localResult' = [localResult EXCEPT ![page] = LocalCopy(page, currentPage, totalPages)]
    /\ UNCHANGED <<paginationVars, screenVars, flagVars, storeVars, siteVars>>

CallHomePage == CallLocal("HomePage")
CallManageProductsPage == CallLocal("ManageProductsPage")
CallAdminPage == CallLocal("AdminPage")

NextCopies ==
    \/ Call
    \/ CallHomePage
    \/ CallManageProductsPage
    \/ CallAdminPage

SpecCopies == InitCopies /\ [][NextCopies]_vars

----------------------------------------------------------------------------
\* A mounted screen: the first render sees the empty list and page 1.
InitScreens ==
    /\ screen \in Screens
    /\ listLength = 0
    /\ screenPage = 1
    /\ paginationLimit \in PaginationLimits
    /\ totalPages = TotalPagesOf(0, PerPage(screen))
    /\ currentPage = SafePageOf(1, TotalPagesOf(0, PerPage(screen)))
    /\ maxVisible = LimitOf(screen, paginationLimit)
    /\ result = PageNumbersOf(screen, SafePageOf(1, TotalPagesOf(0, PerPage(screen))),
                              TotalPagesOf(0, PerPage(screen)), paginationLimit)
    /\ threw = FALSE
    /\ pc = "done"
    /\ CopiesIdle
    /\ FlagsIdle
    /\ StoreIdle
    /\ SiteIdle

\* The pagination bar is rendered: HomePage needs more than one page of
\* products, the other screens a non-empty list.
BarShown ==
    IF screen = "HomePage" THEN listLength > HomePage_PRODUCTS_PER_PAGE
    ELSE listLength > 0

\* setProducts / setReviews: the list is loaded or an entry is replaced, the
\* page is left alone (HomePage, ManageProductsPage, ManageReviewsPage).
ListUpdate ==
    /\ screen \in {"HomePage", "ManageProductsPage", "ManageReviewsPage"}
    /\ \E length \in 0..MaxItems :
          /\ listLength' = length
          /\ Render(screen, length, screenPage, paginationLimit)
    /\ UNCHANGED <<screen, screenPage, paginationLimit, copyVars, flagVars, storeVars, siteVars>>

\* AdminPage: setAdminMetrics(...) is followed by setCurrentVisitsPage(1).
LoadMetrics ==
    /\ screen = "AdminPage"
    /\ \E length \in 0..MaxItems :
          /\ listLength' = length
          /\ Render(screen, length, 1, paginationLimit)
    /\ screenPage' = 1
    /\ UNCHANGED <<screen, paginationLimit, copyVars, flagVars, storeVars, siteVars>>

\* Search text, category, status filter or sort: every such handler also
\* calls setCurrentPage(1).
ChangeFilter ==
    /\ screen \in {"HomePage", "ManageProductsPage", "ManageReviewsPage"}
    /\ \E length \in 0..MaxItems :
          /\ listLength' = length
          /\ Render(screen, length, 1, paginationLimit)
    /\ screenPage' = 1
    /\ UNCHANGED <<screen, paginationLimit, copyVars, flagVars, storeVars, siteVars>>

\* onClick={() => setCurrentPage(pageItem)} on a rendered page number.
ClickPage ==
    /\ BarShown
    /\ \E i \in 1..Len(result) :
          /\ result[i].type = "page"
          /\ screenPage' = result[i].page
          /\ Render(screen, listLength, result[i].page, paginationLimit)
    /\ UNCHANGED <<screen, listLength, paginationLimit, copyVars, flagVars, storeVars, siteVars>>

\* 'Anterior', disabled when safeCurrentPage === 1.  HomePage updates from
\* the stored page (prev), the other screens from the safe page.
PreviousPage ==
    IF screen = "HomePage" THEN MathMax(1, screenPage - 1)
    ELSE MathMax(1, currentPage - 1)
ClickPrevious ==
    /\ BarShown
    /\ currentPage # 1
    /\ screenPage' = PreviousPage
    /\ Render(screen, listLength, PreviousPage, paginationLimit)
    /\ UNCHANGED <<screen, listLength, paginationLimit, copyVars, flagVars, storeVars, siteVars>>

\* 'Siguiente', disabled when safeCurrentPage === totalPages.
NextPage ==
    IF screen = "HomePage" THEN MathMin(totalPages, screenPage + 1)
    ELSE MathMin(totalPages, currentPage + 1)
ClickNext ==
    /\ BarShown
    /\ currentPage # totalPages
    /\ screenPage' = NextPage
    /\ Render(screen, listLength, NextPage, paginationLimit)
    /\ UNCHANGED <<screen, listLength, paginationLimit, copyVars, flagVars, storeVars, siteVars>>

\* window 'resize': setPaginationLimit(getPaginationLimitByWidth(innerWidth)).
Resize ==
    /\ screen = "ManageReviewsPage"
    /\ \E limit \in PaginationLimits :
          /\ paginationLimit' = limit
          /\ Render(screen, listLength, screenPage, limit)
    /\ UNCHANGED <<screen, listLength, screenPage, copyVars, flagVars, storeVars, siteVars>>

NextScreens ==
    \/ ListUpdate
    \/ LoadMetrics
    \/ ChangeFilter
    \/ ClickPage
    \/ ClickPrevious
    \/ ClickNext
    \/ Resize

SpecScreens == InitScreens /\ [][NextScreens]_vars

----------------------------------------------------------------------------
\* The exported flag functions called in any order on a fresh storage.
InitFlags ==
    /\ currentPage = 1
    /\ totalPages = 1
    /\ maxVisible = 7
    /\ pc = "start"
    /\ threw = FALSE
    /\ result = <<>>
    /\ CopiesIdle
    /\ ScreensIdle
    /\ FlagsIdle
    /\ StoreIdle
    /\ SiteIdle

OtherThanFlags == <<paginationVars, copyVars, screenVars, storeVars, siteVars>>

GetProductBannerFlag ==
    /\ \E id \in ProductIds, isNew \in BOOLEAN :
          flagRead' = [fn |-> "getProductBannerFlag", id |-> id, isNew |-> isNew,
                       value |-> getProductBannerFlag([id |-> id, isNew |-> isNew])]
    /\ UNCHANGED <<bannerStorage, statusStorage, bannerHistory, statusHistory>>
    /\ UNCHANGED OtherThanFlags

SetProductBannerFlag ==
    /\ \E id \in ProductIds, showInBanner \in BOOLEAN :
          /\ bannerStorage' = BannerAfterSet(id, showInBanner)
          /\ bannerHistory' = [bannerHistory EXCEPT
                                  ![id] = [op |-> "set", value |-> showInBanner]]
    /\ UNCHANGED <<statusStorage, flagRead, statusHistory>>
    /\ UNCHANGED OtherThanFlags

RemoveProductBannerFlag ==
    /\ \E id \in ProductIds :
          /\ bannerStorage' = BannerAfterRemove(id)
          /\ bannerHistory' = [bannerHistory EXCEPT
                                  ![id] = [op |-> "remove", value |-> FALSE]]
    /\ UNCHANGED <<statusStorage, flagRead, statusHistory>>
    /\ UNCHANGED OtherThanFlags

IsProductEnabled ==
    /\ \E id \in ProductIds :
          flagRead' = [fn |-> "isProductEnabled", id |-> id, isNew |-> FALSE,
                       value |-> isProductEnabled(id)]
    /\ UNCHANGED <<bannerStorage, statusStorage, bannerHistory, statusHistory>>
    /\ UNCHANGED OtherThanFlags

SetProductEnabledStatus ==
    /\ \E id \in ProductIds, enabled \in BOOLEAN :
          /\ statusStorage' = StatusAfterSet(id, enabled)
          /\ statusHistory' = [statusHistory EXCEPT
                                  ![id] = [op |-> "set", value |-> enabled]]
    /\ UNCHANGED <<bannerStorage, flagRead, bannerHistory>>
    /\ UNCHANGED OtherThanFlags

NextFlags ==
    \/ GetProductBannerFlag
    \/ SetProductBannerFlag
    \/ RemoveProductBannerFlag
    \/ IsProductEnabled
    \/ SetProductEnabledStatus

SpecFlags == InitFlags /\ [][NextFlags]_vars

----------------------------------------------------------------------------
\* The store: the backend holds the products, all enabled at first; the
\* browser starts with an empty storage and no page mounted.
InitStore ==
    /\ currentPage = 1
    /\ totalPages = 1
    /\ maxVisible = 7
    /\ pc = "start"
    /\ threw = FALSE
    /\ result = <<>>
    /\ CopiesIdle
    /\ ScreensIdle
    /\ FlagsIdle
    /\ route = "none"
    /\ serverProducts \in [ProductIds -> [isNew : BOOLEAN, isEnabled : {TRUE}]]
    /\ pageProducts = {}
    /\ detailProduct = "none"
    /\ SiteIdle

OtherThanStore == <<paginationVars, copyVars, screenVars, siteVars>>
FlagsUntouched == UNCHANGED <<statusStorage, flagRead, bannerHistory, statusHistory>>

\* HomePage mounts: loadProducts, setProducts(fetchedProducts).
OpenHomePage ==
    /\ route' = "/"
    /\ \E fetched \in {getProducts, {}} : pageProducts' = fetched
    /\ detailProduct' = "none"
    /\ UNCHANGED <<serverProducts, bannerStorage>>
    /\ FlagsUntouched
    /\ UNCHANGED OtherThanStore

\* ManageProductsPage mounts: loadProducts, setProducts(fetchedProducts).
OpenManageProductsPage ==
    /\ route' = "/admin/productos"
    /\ \E fetched \in {getProducts, {}} : pageProducts' = fetched
    /\ detailProduct' = "none"
    /\ UNCHANGED <<serverProducts, bannerStorage>>
    /\ FlagsUntouched
    /\ UNCHANGED OtherThanStore

\* ManageProductsPage.handleToggleStatus(product), confirmed by the admin:
\* updateProduct({...product, isEnabled: !currentlyEnabled}); when it fails
\* nothing changes; when it succeeds the entry is replaced by the response
\* and, on disabling, removeProductBannerFlag(product.id) is called.
ToggleStatus ==
    /\ route = "/admin/productos"
    /\ \E product \in pageProducts :
          LET currentlyEnabled == product.isEnabled # FALSE
              updated == [product EXCEPT !.isEnabled = ~currentlyEnabled]
          IN \/ /\ serverProducts' = [serverProducts EXCEPT
                                        ![product.id].isEnabled = ~currentlyEnabled]
                /\ pageProducts' = (pageProducts \ {product}) \cup {updated}
                /\ bannerStorage' = IF currentlyEnabled
                                    THEN BannerAfterRemove(product.id)
                                    ELSE bannerStorage
             \/ UNCHANGED <<serverProducts, pageProducts, bannerStorage>>
    /\ UNCHANGED <<route, detailProduct>>
    /\ FlagsUntouched
    /\ UNCHANGED OtherThanStore

\* EditProductPage.handleSubmit, successful: setProductBannerFlag(product.id,
\* showInBanner), then navigate('/admin/productos').  The update it sends
\* carries no isEnabled field.
SaveProduct ==
    /\ route = "/admin/productos"
    /\ \E id \in ProductIds, showInBanner \in BOOLEAN :
          bannerStorage' = BannerAfterSet(id, showInBanner)
    /\ \E fetched \in {getProducts, {}} : pageProducts' = fetched
    /\ UNCHANGED <<route, serverProducts, detailProduct>>
    /\ FlagsUntouched
    /\ UNCHANGED OtherThanStore

\* ProductDetailPage mounts on /producto/:id: loadProduct.
OpenProductDetail ==
    /\ route' = "/producto/:id"
    /\ \E id \in ProductIds, fetched \in BOOLEAN :
          detailProduct' = LoadedDetail(id, fetched)
    /\ pageProducts' = {}
    /\ UNCHANGED <<serverProducts, bannerStorage>>
    /\ FlagsUntouched
    /\ UNCHANGED OtherThanStore

NextStore ==
    \/ OpenHomePage
    \/ OpenManageProductsPage
    \/ ToggleStatus
    \/ SaveProduct
    \/ OpenProductDetail

SpecStore == InitStore /\ [][NextStore]_vars

----------------------------------------------------------------------------
\* The admin session in one browser: nothing stored, the store open.
InitAuth ==
    /\ currentPage = 1
    /\ totalPages = 1
    /\ maxVisible = 7
    /\ pc = "start"
    /\ threw = FALSE
    /\ result = <<>>
    /\ CopiesIdle
    /\ ScreensIdle
    /\ FlagsIdle
    /\ StoreIdle
    /\ AuthIdle
    /\ ListsIdle
    /\ LikesIdle
    /\ PressIdle
    /\ VisitsIdle
    /\ CatalogIdle
    /\ CategoriesIdle
    /\ RawIdle

OtherThanAuth ==
    <<paginationVars, copyVars, screenVars, flagVars, storeVars, listVars, likeVars,
      pressVars,
      visitVars, catalogVars, categoryVars, rawVars>>

\* authService.setToken(token)
SetToken ==
    /\ \E token \in Tokens : tokenStorage' = StoredToken(token)
    /\ authStorage' = TRUE
    /\ loggedOut' = "no"
    /\ lastCall' = NoCall
    /\ UNCHANGED <<location, isAdmin, inFlight>>
    /\ UNCHANGED OtherThanAuth

\* LoginPage.handleSubmit: when apiService.login succeeds, the '@fl_store_auth'
\* item is set and navigate('/admin') follows; otherwise only an alert.
SubmitLogin ==
    /\ location = "/login"
    /\ \E success \in BOOLEAN :
          IF success
          THEN /\ authStorage' = TRUE
               /\ location' = ProtectedRoute("/admin", hasToken(tokenStorage))
               /\ isAdmin' = IF location' # location THEN hasToken(tokenStorage)
                             ELSE isAdmin
          ELSE UNCHANGED <<authStorage, location, isAdmin>>
    /\ lastCall' = NoCall
    /\ UNCHANGED <<tokenStorage, inFlight, loggedOut>>
    /\ UNCHANGED OtherThanAuth

\* A path is opened (a link or the address bar): the route renders, and the
\* header's effect on location.pathname sets isAdmin from hasToken().
OpenPath ==
    /\ \E path \in Paths : location' = ProtectedRoute(path, hasToken(tokenStorage))
    /\ isAdmin' = hasToken(tokenStorage)
    /\ lastCall' = NoCall
    /\ UNCHANGED <<tokenStorage, authStorage, inFlight, loggedOut>>
    /\ UNCHANGED OtherThanAuth

\* StoreHeader.handleLogout ('Salir', rendered when isAdmin)
HeaderLogout ==
    /\ isAdmin
    /\ tokenStorage' = NoToken
    /\ authStorage' = FALSE
    /\ isAdmin' = FALSE
    /\ location' = "/"
    /\ loggedOut' = "StoreHeader"
    /\ lastCall' = NoCall
    /\ UNCHANGED inFlight
    /\ UNCHANGED OtherThanAuth

\* AdminPage.logout ('Cerrar sesion'): removeItem('@fl_store_auth'),
\* navigate('/login').
AdminPageLogout ==
    /\ location = "/admin"
    /\ authStorage' = FALSE
    /\ location' = "/login"
    /\ isAdmin' = hasToken(tokenStorage)
    /\ loggedOut' = "AdminPage"
    /\ lastCall' = NoCall
    /\ UNCHANGED <<tokenStorage, inFlight>>
    /\ UNCHANGED OtherThanAuth

\* An admin operation up to its await: getRequiredAuthHeaders throws inside
\* the try block when no token is stored, and the catch block returns the
\* failure value; otherwise the request leaves with the headers.
StartAdminOp ==
    /\ inFlight = NoRequest
    /\ \E op \in AdminOps :
          LET headers == getAuthHeaders(tokenStorage)
          IN IF ~headers.defined
             THEN /\ lastCall' = [op |-> op, sent |-> FALSE, error |-> "no token",
                                  value |-> FailureValue(op),
                                  tokenBefore |-> tokenStorage]
                  /\ tokenStorage' = IF ClearsToken(MissingTokenError) THEN NoToken
                                     ELSE tokenStorage
                  /\ authStorage' = IF ClearsToken(MissingTokenError) THEN FALSE
                                    ELSE authStorage
                  /\ UNCHANGED inFlight
             ELSE /\ inFlight' = [op |-> op, Authorization |-> headers.Authorization]
                  /\ lastCall' = [op |-> op, sent |-> TRUE, error |-> "none",
                                  value |-> "pending", tokenBefore |-> tokenStorage]
                  /\ UNCHANGED <<tokenStorage, authStorage>>
    /\ UNCHANGED <<location, isAdmin, loggedOut>>
    /\ UNCHANGED OtherThanAuth

\* The response of the request in flight: the data, or the catch block with
\* handleAdminUnauthorized(error) and the failure value.
FinishAdminOp ==
    /\ inFlight # NoRequest
    /\ \E response \in Responses :
          IF response = "200"
          THEN /\ lastCall' = [op |-> inFlight.op, sent |-> FALSE, error |-> "none",
                               value |-> "data", tokenBefore |-> tokenStorage]
               /\ UNCHANGED <<tokenStorage, authStorage>>
          ELSE /\ lastCall' = [op |-> inFlight.op, sent |-> FALSE, error |-> response,
                               value |-> FailureValue(inFlight.op),
                               tokenBefore |-> tokenStorage]
               /\ tokenStorage' = IF ClearsToken(AxiosError(response)) THEN NoToken
                                  ELSE tokenStorage
               /\ authStorage' = IF ClearsToken(AxiosError(response)) THEN FALSE
                                 ELSE authStorage
    /\ inFlight' = NoRequest
    /\ UNCHANGED <<location, isAdmin, loggedOut>>
    /\ UNCHANGED OtherThanAuth

NextAuth ==
    \/ SetToken
    \/ SubmitLogin
    \/ OpenPath
    \/ HeaderLogout
    \/ AdminPageLogout
    \/ StartAdminOp
    \/ FinishAdminOp

SpecAuth == InitAuth /\ [][NextAuth]_vars

----------------------------------------------------------------------------
\* An admin list after its load: three products or two reviews, with or
\* without banner flags stored.
InitLists ==
    /\ currentPage = 1
    /\ totalPages = 1
    /\ maxVisible = 7
    /\ pc = "start"
    /\ threw = FALSE
    /\ result = <<>>
    /\ CopiesIdle
    /\ ScreensIdle
    /\ statusStorage = NoItem
    /\ flagRead = NoRead
    /\ bannerHistory = [id \in ProductIds |-> NoWrite]
    /\ statusHistory = [id \in ProductIds |-> NoWrite]
    /\ bannerStorage \in {NoItem,
                          WriteMap(<<[key |-> "p1", value |-> TRUE],
                                     [key |-> "p2", value |-> FALSE]>>)}
    /\ StoreIdle
    /\ AuthIdle
    /\ adminScreen \in {"ManageProductsPage", "ManageReviewsPage"}
    /\ \/ /\ adminScreen = "ManageProductsPage"
          /\ \E enabled \in [ProductIds -> BOOLEAN] :
                adminList = <<[id |-> "p1", isEnabled |-> enabled["p1"], version |-> "v1"],
                              [id |-> "p2", isEnabled |-> enabled["p2"], version |-> "v1"],
                              [id |-> "p3", isEnabled |-> enabled["p3"], version |-> "v1"]>>
       \/ /\ adminScreen = "ManageReviewsPage"
          /\ adminList = <<[id |-> "r1", status |-> "pending", version |-> "v1"],
                           [id |-> "r2", status |-> "approved", version |-> "v1"]>>
    /\ pendingUpdates = {}
    /\ lastUpdate = NoUpdate
    /\ LikesIdle
    /\ PressIdle
    /\ VisitsIdle
    /\ CatalogIdle
    /\ CategoriesIdle
    /\ RawIdle

OtherThanLists ==
    <<paginationVars, copyVars, screenVars, storeVars, authVars, likeVars, pressVars,
      visitVars, catalogVars, categoryVars, rawVars, statusStorage, flagRead, bannerHistory, statusHistory>>

\* ManageProductsPage.handleToggleStatus(product) up to its await, the
\* confirm dialog accepted: updateProduct(product.id, {...product, isEnabled}).
ToggleProductStatus ==
    /\ adminScreen = "ManageProductsPage"
    /\ Cardinality(pendingUpdates) < MaxPending
    /\ \E i \in 1..Len(adminList) :
          LET product == adminList[i]
              currentlyEnabled == product.isEnabled # FALSE
          IN pendingUpdates' = pendingUpdates \cup
                {[id |-> product.id, currentlyEnabled |-> currentlyEnabled]}
    /\ lastUpdate' = NoUpdate
    /\ UNCHANGED <<adminScreen, adminList, bannerStorage>>
    /\ UNCHANGED OtherThanLists

\* ... and after it: null shows an alert and stops; otherwise, when the
\* product was being disabled removeProductBannerFlag(product.id), and the
\* entry is replaced by the response.
ResolveToggleProductStatus ==
    /\ adminScreen = "ManageProductsPage"
    /\ \E request \in pendingUpdates :
          /\ pendingUpdates' = pendingUpdates \ {request}
          /\ \/ /\ lastUpdate' = [id |-> request.id, ok |-> FALSE,
                                  listBefore |-> adminList,
                                  bannerBefore |-> bannerStorage]
                /\ UNCHANGED <<adminList, bannerStorage>>
             \/ \E updated \in ProductResponses(request) :
                   /\ lastUpdate' = [id |-> request.id, ok |-> TRUE,
                                     listBefore |-> adminList,
                                     bannerBefore |-> bannerStorage,
                                     updated |-> updated]
                   /\ bannerStorage' = IF request.currentlyEnabled
                                       THEN BannerAfterRemove(request.id)
                                       ELSE bannerStorage
                   /\ adminList' = ReplaceEntry(adminList, request.id, updated)
    /\ UNCHANGED adminScreen
    /\ UNCHANGED OtherThanLists

\* ManageReviewsPage.handleUpdateStatus(review, status) up to its await.
UpdateReviewStatus ==
    /\ adminScreen = "ManageReviewsPage"
    /\ Cardinality(pendingUpdates) < MaxPending
    /\ \E i \in 1..Len(adminList), status \in ReviewStatuses :
          pendingUpdates' = pendingUpdates \cup
                {[id |-> adminList[i].id, status |-> status]}
    /\ lastUpdate' = NoUpdate
    /\ UNCHANGED <<adminScreen, adminList, bannerStorage>>
    /\ UNCHANGED OtherThanLists

\* ... and after it: null shows an alert and stops, otherwise the entry is
\* replaced by the response.
ResolveUpdateReviewStatus ==
    /\ adminScreen = "ManageReviewsPage"
    /\ \E request \in pendingUpdates :
          /\ pendingUpdates' = pendingUpdates \ {request}
          /\ \/ /\ lastUpdate' = [id |-> request.id, ok |-> FALSE,
                                  listBefore |-> adminList,
                                  bannerBefore |-> bannerStorage]
                /\ UNCHANGED adminList
             \/ \E updated \in ReviewResponses(request) :
                   /\ lastUpdate' = [id |-> request.id, ok |-> TRUE,
                                     listBefore |-> adminList,
                                     bannerBefore |-> bannerStorage,
                                     updated |-> updated]
                   /\ adminList' = ReplaceEntry(adminList, request.id, updated)
    /\ UNCHANGED <<adminScreen, bannerStorage>>
    /\ UNCHANGED OtherThanLists

NextLists ==
    \/ ToggleProductStatus
    \/ ResolveToggleProductStatus
    \/ UpdateReviewStatus
    \/ ResolveUpdateReviewStatus

SpecLists == InitLists /\ [][NextLists]_vars

----------------------------------------------------------------------------
\* The public reviews shown to a visitor with a visitor id, none liked yet.
InitLikes ==
    /\ currentPage = 1
    /\ totalPages = 1
    /\ maxVisible = 7
    /\ pc = "start"
    /\ threw = FALSE
    /\ result = <<>>
    /\ CopiesIdle
    /\ ScreensIdle
    /\ FlagsIdle
    /\ StoreIdle
    /\ AuthIdle
    /\ ListsIdle
    /\ LikesIdle
    /\ PressIdle
    /\ VisitsIdle
    /\ CatalogIdle
    /\ CategoriesIdle
    /\ RawIdle

OtherThanLikes ==
    <<paginationVars, copyVars, screenVars, flagVars, storeVars, authVars, listVars,
      pressVars,
      visitVars, catalogVars, categoryVars, rawVars>>

\* A click on an enabled like button: handleToggleLike(review) up to its
\* await: setLikingReviewId(review.id), then the setReviewLike request.
ClickLike ==
    /\ \E reviewId \in ShownReviews :
          /\ ~isUpdatingLike(reviewId)
          /\ likesInFlight[reviewId] < MaxLikeRequests
          /\ likingReviewId' = reviewId
          /\ likesInFlight' = [likesInFlight EXCEPT ![reviewId] = @ + 1]
    /\ UNCHANGED reviewLikeOverrides
    /\ UNCHANGED OtherThanLikes

\* ... and after it: setLikingReviewId(''), then an alert on null, or the
\* override of that review set from the response.
ResolveLike ==
    /\ \E reviewId \in ShownReviews :
          /\ likesInFlight[reviewId] > 0
          /\ likesInFlight' = [likesInFlight EXCEPT ![reviewId] = @ - 1]
          /\ \E updated \in {"null", "liked", "unliked"} :
                reviewLikeOverrides' =
                    IF updated = "null" THEN reviewLikeOverrides
                    ELSE [reviewLikeOverrides EXCEPT ![reviewId] = updated]
    /\ likingReviewId' = NoReview
    /\ UNCHANGED OtherThanLikes

NextLikes ==
    \/ ClickLike
    \/ ResolveLike

SpecLikes == InitLikes /\ [][NextLikes]_vars

----------------------------------------------------------------------------
\* The HomePage header, its logo not pressed yet.
InitPress ==
    /\ currentPage = 1
    /\ totalPages = 1
    /\ maxVisible = 7
    /\ pc = "start"
    /\ threw = FALSE
    /\ result = <<>>
    /\ CopiesIdle
    /\ ScreensIdle
    /\ FlagsIdle
    /\ StoreIdle
    /\ AuthIdle
    /\ ListsIdle
    /\ LikesIdle
    /\ PressIdle
    /\ VisitsIdle
    /\ CatalogIdle
    /\ CategoriesIdle
    /\ RawIdle

OtherThanPress ==
    <<paginationVars, copyVars, screenVars, flagVars, storeVars, authVars, listVars,
      likeVars,
      visitVars, catalogVars, categoryVars, rawVars>>

\* The callback has run: navigate('/login') has replaced the HomePage.
LongPressFired == \E id \in TimerIds : timers[id].state = "fired"

\* onMouseDown / onTouchStart: startPress, with onLogoLongPress given.
StartPress ==
    /\ ~LongPressFired
    /\ NextTimerId \in TimerIds
    /\ timers' = [timers EXCEPT ![NextTimerId] = NewTimer]
    /\ timerRef' = NextTimerId
    /\ UNCHANGED OtherThanPress

\* onMouseUp / onMouseLeave / onTouchEnd: cancelPress.
CancelPress ==
    /\ ~LongPressFired
    /\ IF timerRef = 0
       THEN /\ timers' = MarkReleased(timers)
            /\ UNCHANGED timerRef
       ELSE /\ timers' = MarkReleased(ClearTimeout(timerRef))
            /\ timerRef' = 0
    /\ UNCHANGED OtherThanPress

\* Time passes, up to the next timer that is due.
Elapse ==
    /\ \E delay \in Delays :
          /\ \A id \in TimerIds :
                timers[id].state = "pending" => timers[id].left >= delay
          /\ \E id \in TimerIds : timers[id].state # "unset" /\ timers[id].left > 0
          /\ timers' = [id \in TimerIds |->
                          IF timers[id].state # "unset" /\ timers[id].left > 0
                          THEN [timers[id] EXCEPT
                                   !.left = IF @ >= delay THEN @ - delay ELSE 0]
                          ELSE timers[id]]
    /\ UNCHANGED timerRef
    /\ UNCHANGED OtherThanPress

\* A pending timer is due: its callback calls onLogoLongPress().
TimerFires ==
    /\ \E id \in TimerIds :
          /\ timers[id].state = "pending"
          /\ timers[id].left = 0
          /\ timers' = [timers EXCEPT ![id].state = "fired"]
    /\ UNCHANGED timerRef
    /\ UNCHANGED OtherThanPress

NextPress ==
    \/ StartPress
    \/ CancelPress
    \/ Elapse
    \/ TimerFires

SpecPress == InitPress /\ [][NextPress]_vars

----------------------------------------------------------------------------
\* One browser storage with no visit tracked yet, on the first day.
InitVisits ==
    /\ currentPage = 1
    /\ totalPages = 1
    /\ maxVisible = 7
    /\ pc = "start"
    /\ threw = FALSE
    /\ result = <<>>
    /\ CopiesIdle
    /\ ScreensIdle
    /\ FlagsIdle
    /\ StoreIdle
    /\ AuthIdle
    /\ ListsIdle
    /\ LikesIdle
    /\ PressIdle
    /\ VisitsIdle
    /\ CatalogIdle
    /\ CategoriesIdle
    /\ RawIdle

OtherThanVisits ==
    <<paginationVars, copyVars, screenVars, flagVars, storeVars, authVars, listVars,
      likeVars, pressVars, catalogVars, categoryVars, rawVars>>

\* A HomePage mounts (a tab, or a return to '/'): loadVisits up to its await.
\* It reads the day and the stored day, then sends registerVisit or
\* getPublicMetrics.
LoadVisits ==
    /\ \E load \in Loads :
          /\ visitLoads[load] = NotLoaded
          /\ LET day == getEcuadorDayKey
                 lastTrackedDay == lastVisitDay
             IN IF MustRegister(lastTrackedDay, day)
                THEN /\ visitLoads' = [visitLoads EXCEPT
                                          ![load] = [at |-> "await registerVisit",
                                                     day |-> day]]
                     /\ registerVisits' = [registerVisits EXCEPT ![day] = @ + 1]
                ELSE /\ visitLoads' = [visitLoads EXCEPT
                                          ![load] = [at |-> "await getPublicMetrics",
                                                     day |-> day]]
                     /\ UNCHANGED registerVisits
    /\ UNCHANGED <<today, lastVisitDay>>
    /\ UNCHANGED OtherThanVisits

\* registerVisit has resolved (to the counts or to null):
\* localStorage.setItem(VISIT_TRACK_STORAGE_KEY, today), with the day read
\* before the await.
VisitRegistered ==
    /\ \E load \in Loads :
          /\ visitLoads[load].at = "await registerVisit"
          /\ lastVisitDay' = visitLoads[load].day
          /\ visitLoads' = [visitLoads EXCEPT ![load].at = "done"]
    /\ UNCHANGED <<today, registerVisits>>
    /\ UNCHANGED OtherThanVisits

\* getPublicMetrics has resolved: setTotalVisits when still mounted.
MetricsLoaded ==
    /\ \E load \in Loads :
          /\ visitLoads[load].at = "await getPublicMetrics"
          /\ visitLoads' = [visitLoads EXCEPT ![load].at = "done"]
    /\ UNCHANGED <<today, lastVisitDay, registerVisits>>
    /\ UNCHANGED OtherThanVisits

\* Midnight in Ecuador.
NextDay ==
    /\ today < MaxDays
    /\ today' = today + 1
    /\ UNCHANGED <<lastVisitDay, visitLoads, registerVisits>>
    /\ UNCHANGED OtherThanVisits

NextVisits ==
    \/ LoadVisits
    \/ VisitRegistered
    \/ MetricsLoaded
    \/ NextDay

SpecVisits == InitVisits /\ [][NextVisits]_vars

----------------------------------------------------------------------------
\* The HomePage just mounted: the first render, before the products arrive.
InitCatalog ==
    /\ screen = "HomePage"
    /\ listLength = 0
    /\ screenPage = 1
    /\ paginationLimit = 7
    /\ totalPages = TotalPagesOf(0, HomePage_PRODUCTS_PER_PAGE)
    /\ currentPage = SafePageOf(1, TotalPagesOf(0, HomePage_PRODUCTS_PER_PAGE))
    /\ maxVisible = HomePage_COMPACT_PAGINATION_LIMIT
    /\ result = HomePage_buildCompactPagination(
                    SafePageOf(1, TotalPagesOf(0, HomePage_PRODUCTS_PER_PAGE)),
                    TotalPagesOf(0, HomePage_PRODUCTS_PER_PAGE))
    /\ threw = FALSE
    /\ pc = "done"
    /\ CopiesIdle
    /\ FlagsIdle
    /\ StoreIdle
    /\ AuthIdle
    /\ ListsIdle
    /\ LikesIdle
    /\ PressIdle
    /\ VisitsIdle
    /\ CatalogIdle
    /\ CategoriesIdle
    /\ RawIdle

OtherThanCatalog ==
    <<copyVars, flagVars, storeVars, authVars, listVars, likeVars, pressVars,
      visitVars, categoryVars, rawVars, screen, paginationLimit>>

\* The render after a handler: the list is filtered again, then the pages
\* are computed from its length and the stored page.
RenderCatalog(products, search, selected, page) ==
    /\ listLength' = Len(HomeFilteredProducts(products, search, selected))
    /\ Render("HomePage", Len(HomeFilteredProducts(products, search, selected)),
              page, paginationLimit)

\* The pagination bar is rendered: not loading, more than one page of products.
HomeBarShown == ~homeLoading /\ listLength > HomePage_PRODUCTS_PER_PAGE

\* loadProducts resolves, once per mount: setProducts(fetchedProducts),
\* setLoading(false).
ProductsLoaded ==
    /\ homeLoading
    /\ \E n \in 0..MaxCatalog :
          /\ homeProducts' = Catalog(n)
          /\ RenderCatalog(Catalog(n), searchText, selectedCategory, screenPage)
    /\ homeLoading' = FALSE
    /\ lastClick' = NoClick
    /\ UNCHANGED <<screenPage, searchText, selectedCategory, sortField, sortDirection>>
    /\ UNCHANGED OtherThanCatalog

\* The search input: onChange setSearchText(value), onInput setCurrentPage(1).
SearchInput ==
    /\ \E text \in SearchTexts \ {searchText} :
          /\ searchText' = text
          /\ screenPage' = PageAfterFilterChange(screenPage)
          /\ RenderCatalog(homeProducts, text, selectedCategory,
                           PageAfterFilterChange(screenPage))
    /\ lastClick' = NoClick
    /\ UNCHANGED <<homeProducts, homeLoading, selectedCategory, sortField, sortDirection>>
    /\ UNCHANGED OtherThanCatalog

\* A category button: setSelectedCategory(category), setCurrentPage(1).
SelectCategory ==
    /\ \E i \in 1..Len(HomeCategories(homeProducts)) :
          LET category == HomeCategories(homeProducts)[i]
          IN /\ selectedCategory' = category
             /\ screenPage' = PageAfterFilterChange(screenPage)
             /\ RenderCatalog(homeProducts, searchText, category,
                              PageAfterFilterChange(screenPage))
    /\ lastClick' = NoClick
    /\ UNCHANGED <<homeProducts, homeLoading, searchText, sortField, sortDirection>>
    /\ UNCHANGED OtherThanCatalog

\* handleSortSelect(field)
SortSelect ==
    /\ \E field \in {"name", "price"} :
          IF sortField = field
          THEN /\ sortDirection' = IF sortDirection = "asc" THEN "desc" ELSE "asc"
               /\ UNCHANGED sortField
          ELSE /\ sortField' = field
               /\ sortDirection' = "asc"
    /\ screenPage' = PageAfterFilterChange(screenPage)
    /\ RenderCatalog(homeProducts, searchText, selectedCategory,
                     PageAfterFilterChange(screenPage))
    /\ lastClick' = NoClick
    /\ UNCHANGED <<homeProducts, homeLoading, searchText, selectedCategory>>
    /\ UNCHANGED OtherThanCatalog

\* A page number of the bar: setCurrentPage(pageItem).
HomeClickPage ==
    /\ HomeBarShown
    /\ \E i \in 1..Len(result) :
          /\ result[i].type = "page"
          /\ screenPage' = result[i].page
          /\ RenderCatalog(homeProducts, searchText, selectedCategory, result[i].page)
    /\ lastClick' = NoClick
    /\ UNCHANGED <<homeProducts, homeLoading, searchText, selectedCategory, sortField,
                   sortDirection>>
    /\ UNCHANGED OtherThanCatalog

\* 'Anterior' (disabled when safeCurrentPage === 1):
\* setCurrentPage((prev) => Math.max(1, prev - 1))
HomeClickPrevious ==
    /\ HomeBarShown
    /\ currentPage # 1
    /\ screenPage' = MathMax(1, screenPage - 1)
    /\ RenderCatalog(homeProducts, searchText, selectedCategory,
                     MathMax(1, screenPage - 1))
    /\ lastClick' = [button |-> "Anterior", displayed |-> currentPage,
                     total |-> totalPages]
    /\ UNCHANGED <<homeProducts, homeLoading, searchText, selectedCategory, sortField,
                   sortDirection>>
    /\ UNCHANGED OtherThanCatalog

\* 'Siguiente' (disabled when safeCurrentPage === totalPages):
\* setCurrentPage((prev) => Math.min(totalPages, prev + 1))
HomeClickNext ==
    /\ HomeBarShown
    /\ currentPage # totalPages
    /\ screenPage' = MathMin(totalPages, screenPage + 1)
    /\ RenderCatalog(homeProducts, searchText, selectedCategory,
                     MathMin(totalPages, screenPage + 1))
    /\ lastClick' = [button |-> "Siguiente", displayed |-> currentPage,
                     total |-> totalPages]
    /\ UNCHANGED <<homeProducts, homeLoading, searchText, selectedCategory, sortField,
                   sortDirection>>
    /\ UNCHANGED OtherThanCatalog

NextCatalog ==
    \/ ProductsLoaded
    \/ SearchInput
    \/ SelectCategory
    \/ SortSelect
    \/ HomeClickPage
    \/ HomeClickPrevious
    \/ HomeClickNext

SpecCatalog == InitCatalog /\ [][NextCatalog]_vars

----------------------------------------------------------------------------
\* The AdminPage just mounted: categories is empty and loadCategories waits
\* for getProducts, whose answer is any list of products.
InitCategories ==
    /\ currentPage = 1
    /\ totalPages = 1
    /\ maxVisible = 7
    /\ pc = "start"
    /\ threw = FALSE
    /\ result = <<>>
    /\ CopiesIdle
    /\ ScreensIdle
    /\ FlagsIdle
    /\ StoreIdle
    /\ AuthIdle
    /\ ListsIdle
    /\ LikesIdle
    /\ PressIdle
    /\ VisitsIdle
    /\ CatalogIdle
    /\ RawIdle
    /\ adminCategories = <<>>
    /\ fetchedProducts \in FetchedLists
    /\ categoriesLoaded = FALSE
    /\ submitting = NoSubmit
    /\ lastCategoryStep = NoCategoryStep

OtherThanCategories ==
    <<paginationVars, copyVars, screenVars, flagVars, storeVars, authVars, listVars,
      likeVars, pressVars, visitVars, catalogVars, rawVars>>

\* loadCategories resolves: the Map is filled from the fetched products and
\* its values, sorted, replace the list.
CategoriesLoaded ==
    /\ ~categoriesLoaded
    /\ categoriesLoaded' = TRUE
    /\ adminCategories' = sortCategories(MapValues(FillCategoryMap(fetchedProducts, <<>>)))
    /\ lastCategoryStep' = [op |-> "load", prev |-> adminCategories,
                            normalizedCategory |-> <<>>]
    /\ UNCHANGED <<fetchedProducts, submitting>>
    /\ UNCHANGED OtherThanCategories

\* handleSubmit up to its first await: the category is an option of the
\* select or the text typed as a new one; a blank one is refused with an
\* alert. The button is disabled while a submission is waiting.
SubmitProduct ==
    /\ ~submitting.pending
    /\ \E categoryValue \in CategoryTexts \cup
                            {adminCategories[i] : i \in 1..Len(adminCategories)} :
          LET normalizedCategory == Trim(categoryValue)
          IN IF normalizedCategory = <<>>
             THEN submitting' = NoSubmit
             ELSE submitting' = [pending |-> TRUE,
                                 normalizedCategory |-> normalizedCategory]
    /\ lastCategoryStep' = NoCategoryStep
    /\ UNCHANGED <<adminCategories, fetchedProducts, categoriesLoaded>>
    /\ UNCHANGED OtherThanCategories

\* uploadImage or addProduct failed: an alert, the list is not touched.
SubmitFailed ==
    /\ submitting.pending
    /\ submitting' = NoSubmit
    /\ lastCategoryStep' = [op |-> "failed", prev |-> adminCategories,
                            normalizedCategory |-> submitting.normalizedCategory]
    /\ UNCHANGED <<adminCategories, fetchedProducts, categoriesLoaded>>
    /\ UNCHANGED OtherThanCategories

\* addProduct answered with the product: setCategories((prev) => ...).
SubmitSucceeded ==
    /\ submitting.pending
    /\ adminCategories' = AddCategory(adminCategories, submitting.normalizedCategory)
    /\ submitting' = NoSubmit
    /\ lastCategoryStep' = [op |-> "submit", prev |-> adminCategories,
                            normalizedCategory |-> submitting.normalizedCategory]
    /\ UNCHANGED <<fetchedProducts, categoriesLoaded>>
    /\ UNCHANGED OtherThanCategories

NextCategories ==
    \/ CategoriesLoaded
    \/ SubmitProduct
    \/ SubmitFailed
    \/ SubmitSucceeded

SpecCategories == InitCategories /\ [][NextCategories]_vars

----------------------------------------------------------------------------
\* The two keys hold anything; the flags are read.
InitRaw ==
    /\ currentPage = 1
    /\ totalPages = 1
    /\ maxVisible = 7
    /\ pc = "start"
    /\ threw = FALSE
    /\ result = <<>>
    /\ CopiesIdle
    /\ ScreensIdle
    /\ FlagsIdle
    /\ StoreIdle
    /\ AuthIdle
    /\ ListsIdle
    /\ LikesIdle
    /\ PressIdle
    /\ VisitsIdle
    /\ CatalogIdle
    /\ CategoriesIdle
    /\ rawBanner \in RawContents
    /\ rawStatus \in RawContents
    /\ rawRead = NoRawRead

OtherThanRaw ==
    <<paginationVars, copyVars, screenVars, flagVars, storeVars, authVars, listVars,
      likeVars, pressVars, visitVars, catalogVars, categoryVars>>

GetProductBannerFlagRaw ==
    /\ \E id \in ProductIds, isNew \in BOOLEAN :
          LET outcome == getProductBannerFlagFrom([id |-> id, isNew |-> isNew], rawBanner)
          IN rawRead' = [fn |-> "getProductBannerFlag", id |-> id, isNew |-> isNew,
                         threw |-> outcome.threw, value |-> outcome.value]
    /\ UNCHANGED <<rawBanner, rawStatus>>
    /\ UNCHANGED OtherThanRaw

IsProductEnabledRaw ==
    /\ \E id \in ProductIds :
          LET outcome == isProductEnabledFrom(id, rawStatus)
          IN rawRead' = [fn |-> "isProductEnabled", id |-> id, isNew |-> FALSE,
                         threw |-> outcome.threw, value |-> outcome.value]
    /\ UNCHANGED <<rawBanner, rawStatus>>
    /\ UNCHANGED OtherThanRaw

NextRaw ==
    \/ GetProductBannerFlagRaw
    \/ IsProductEnabledRaw

SpecRaw == InitRaw /\ [][NextRaw]_vars

----------------------------------------------------------------------------
\* Vocabulary of the properties.
Done == pc = "done"
Items == 1..Len(result)
PageAt(i) == result[i].type = "page"
PageNumbers == {result[i].page : i \in {j \in Items : PageAt(j)}}
PageCount == Cardinality({i \in Items : PageAt(i)})
GapCount == Cardinality({i \in Items : result[i] = Ellipsis})
ValidInput ==
    /\ totalPages >= 1
    /\ maxVisible >= 1
    /\ currentPage >= 1
    /\ currentPage <= totalPages
Compacting == totalPages > maxVisible
CalledWith(cp, tp, mv) ==
    Done /\ currentPage = cp /\ totalPages = tp /\ maxVisible = mv

\* C1: with totalPages >= 1, maxVisible >= 1 and totalPages <= maxVisible the
\* call returns exactly [1, 2, ..., totalPages], no gap marker, whatever
\* currentPage is.
C1_ExhaustiveList ==
    (Done /\ totalPages >= 1 /\ maxVisible >= 1 /\ totalPages <= maxVisible)
        => /\ ~threw
           /\ Len(result) = totalPages
           /\ \A i \in Items : result[i] = Page(i)
C1_Witness ==
    /\ CalledWith(5, 5, 7)
    /\ result = <<Page(1), Page(2), Page(3), Page(4), Page(5)>>

\* C2: for a valid input with totalPages > maxVisible the first item is page 1
\* and the last item is page totalPages.
C2_FirstAndLast ==
    (Done /\ ValidInput /\ Compacting)
        => /\ result # <<>>
           /\ result[1] = Page(1)
           /\ result[Len(result)] = Page(totalPages)
C2_Witness ==
    /\ CalledWith(10, 20, 7)
    /\ result[1] = Page(1)
    /\ result[Len(result)] = Page(20)

\* C3: a gap marker stands between two neighbouring page numbers iff they
\* differ by more than 1; a gap marker is never first, never last and never
\* next to another gap marker.
C3_GapPlacement ==
    Done =>
        /\ \A i \in Items : result[i] = Ellipsis =>
              /\ i > 1
              /\ i < Len(result)
              /\ PageAt(i - 1)
              /\ PageAt(i + 1)
              /\ result[i + 1].page - result[i - 1].page > 1
        /\ \A i \in Items : (i < Len(result) /\ PageAt(i) /\ PageAt(i + 1)) =>
              result[i + 1].page - result[i].page <= 1
C3_Witness ==
    /\ CalledWith(10, 20, 7)
    /\ result[2] = Ellipsis
    /\ result[3] = Page(9)
    /\ result[4] = Page(10)

\* C4: for valid inputs the page numbers of the result are strictly
\* increasing from left to right (so none appears twice) and each lies in
\* [1, totalPages].
C4_StrictlyIncreasing ==
    (Done /\ ValidInput) =>
        /\ \A i, j \in Items :
              (i < j /\ PageAt(i) /\ PageAt(j)) => result[i].page < result[j].page
        /\ \A i \in Items : PageAt(i) => result[i].page \in 1..totalPages
C4_Witness ==
    /\ CalledWith(1, 20, 7)
    /\ Len(result) = 6
    /\ result[1] = Page(1)
    /\ result[2] = Page(2)

\* C5: when totalPages > maxVisible the page numbers of the result are exactly
\* {1, totalPages, currentPage-1, currentPage, currentPage+1}, plus {2,3,4}
\* when currentPage <= 3, plus {totalPages-1, totalPages-2, totalPages-3} when
\* currentPage >= totalPages-2, cut down to [1, totalPages].
ReferenceCandidates ==
    ( {1, totalPages, currentPage - 1, currentPage, currentPage + 1}
      \cup (IF currentPage <= 3 THEN {2, 3, 4} ELSE {})
      \cup (IF currentPage >= totalPages - 2
            THEN {totalPages - 1, totalPages - 2, totalPages - 3} ELSE {}) )
    \cap (1..totalPages)
C5_CandidateSet ==
    (Done /\ Compacting) =>
        /\ PageNumbers = ReferenceCandidates
        /\ PageCount = Cardinality(ReferenceCandidates)
C5_Witness ==
    /\ CalledWith(2, 20, 7)
    /\ PageNumbers = {1, 2, 3, 4, 20}

\* C6 as claimed: buildCompactPagination(1, 20, 7) returns
\* [1, 2, 3, 4, gap, 19, 20].
C6_Original ==
    CalledWith(1, 20, 7) =>
        result = <<Page(1), Page(2), Page(3), Page(4), Ellipsis, Page(19), Page(20)>>
\* C6 as amended: buildCompactPagination(1, 20, 7) returns
\* [1, 2, 3, 4, gap, 20]: the start band 1..4, one gap marker, then only the
\* last page.
C6_StartOfLongList ==
    CalledWith(1, 20, 7) =>
        result = <<Page(1), Page(2), Page(3), Page(4), Ellipsis, Page(20)>>
C6_Witness ==
    /\ CalledWith(1, 20, 7)
    /\ result[5] = Ellipsis
    /\ result[Len(result)] = Page(20)

\* C7 as claimed: when totalPages < 1 or maxVisible < 1 the call fails with an
\* error instead of returning a page sequence.
C7_RejectsInvalidBounds ==
    (Done /\ (totalPages < 1 \/ maxVisible < 1)) => threw

\* C8 as claimed: whenever totalPages > maxVisible (maxVisible >= 1,
\* currentPage in [1, totalPages]) the result does not list every page: at
\* least one page is elided behind a gap marker.
SomePageElided ==
    /\ \E page \in 1..totalPages : page \notin PageNumbers
    /\ GapCount >= 1
C8_Original ==
    (Done /\ ValidInput /\ Compacting) => SomePageElided
\* C8 as amended: the same, for totalPages >= 6 (which totalPages > maxVisible
\* implies as soon as maxVisible >= 5).
C8_NeverAllPages ==
    (Done /\ ValidInput /\ Compacting /\ totalPages >= 6) => SomePageElided
C8_Witness ==
    /\ CalledWith(3, 6, 5)
    /\ 5 \notin PageNumbers
    /\ result[5] = Ellipsis

\* C9: for totalPages > maxVisible and currentPage in [1, totalPages] the
\* result holds at most 5 page numbers and at most 2 gap markers, at most 7
\* items, however large totalPages is.
C9_BoundedWidth ==
    (Done /\ Compacting /\ currentPage >= 1 /\ currentPage <= totalPages) =>
        /\ PageCount <= 5
        /\ GapCount <= 2
        /\ Len(result) <= 7
C9_Witness ==
    /\ CalledWith(10, MaxTotalPages, 7)
    /\ PageCount = 5
    /\ GapCount = 2

\* C10: for every totalPages >= 1, whatever maxVisible and currentPage are,
\* the call returns a non-empty sequence that contains page 1.
C10_NonEmpty ==
    (Done /\ totalPages >= 1) =>
        /\ ~threw
        /\ result # <<>>
        /\ \E i \in Items : result[i] = Page(1)
C10_Witness ==
    /\ CalledWith(0, 1, 0)
    /\ result = <<Page(1)>>

\* C12: for totalPages > maxVisible and 4 <= currentPage <= totalPages-3 the
\* call returns exactly [1, gap, currentPage-1, currentPage, currentPage+1,
\* gap, totalPages]; (10, 20, 7) gives [1, gap, 9, 10, 11, gap, 20].
C12_MiddleWindow ==
    (Done /\ Compacting /\ currentPage >= 4 /\ currentPage <= totalPages - 3) =>
        result = <<Page(1), Ellipsis, Page(currentPage - 1), Page(currentPage),
                   Page(currentPage + 1), Ellipsis, Page(totalPages)>>
C12_Witness ==
    /\ CalledWith(10, 20, 7)
    /\ result = <<Page(1), Ellipsis, Page(9), Page(10), Page(11), Ellipsis, Page(20)>>

\* C13: for totalPages > maxVisible, totalPages >= 6 and currentPage one of
\* totalPages-2, totalPages-1, totalPages the call returns exactly
\* [1, gap, totalPages-3, totalPages-2, totalPages-1, totalPages], the same
\* for the three positions; (19, 20, 7) and (20, 20, 7) give
\* [1, gap, 17, 18, 19, 20].
C13_EndWindow ==
    (Done /\ Compacting /\ totalPages >= 6
          /\ currentPage \in {totalPages - 2, totalPages - 1, totalPages}) =>
        result = <<Page(1), Ellipsis, Page(totalPages - 3), Page(totalPages - 2),
                   Page(totalPages - 1), Page(totalPages)>>
C13_Witness ==
    /\ CalledWith(19, 20, 7)
    /\ result = <<Page(1), Ellipsis, Page(17), Page(18), Page(19), Page(20)>>

\* C16: for totalPages > maxVisible with totalPages >= 6 the result holds
\* exactly 5 page numbers for every currentPage in [1, totalPages]: the window
\* does not shrink towards page 1 or page totalPages.
C16_StableWidth ==
    (Done /\ Compacting /\ totalPages >= 6
          /\ currentPage >= 1 /\ currentPage <= totalPages) =>
        PageCount = 5
C16_Witness ==
    /\ CalledWith(1, 12, 5)
    /\ PageCount = 5
    /\ PageNumbers = {1, 2, 3, 4, 12}

\* C17: an out-of-range currentPage behaves as if it were clamped: for
\* totalPages >= 1 and maxVisible >= 1 the result equals the result for
\* min(max(currentPage, 1), totalPages).
Clamp(cp, tp) ==
    LET floored == IF cp > 1 THEN cp ELSE 1
    IN IF floored < tp THEN floored ELSE tp
C17_AsIfClamped ==
    (Done /\ totalPages >= 1 /\ maxVisible >= 1) =>
        result = buildCompactPagination(Clamp(currentPage, totalPages),
                                        totalPages, maxVisible)
C17_Witness ==
    /\ CalledWith(0 - 1, 20, 7)
    /\ result = <<Page(1), Page(2), Page(3), Page(4), Ellipsis, Page(20)>>

\* C15: the two-argument copies of HomePage, ManageProductsPage and AdminPage
\* return, for every (currentPage, totalPages), the same sequence as the
\* shared buildCompactPagination(currentPage, totalPages, 7).
C15_CopiesAgree ==
    Done => \A page \in localCalled : localResult[page] = result
C15_Witness ==
    /\ CalledWith(18, 20, 7)
    /\ localCalled = CopyPages
    /\ localResult["HomePage"] =
          <<Page(1), Ellipsis, Page(17), Page(18), Page(19), Page(20)>>

\* C14: in every reachable state of each paginated screen, after any page
\* click, previous/next click, filter change or list update, the arguments
\* passed to buildCompactPagination satisfy totalPages >= 1 and
\* 1 <= currentPage <= totalPages.
C14_CallersClamp ==
    (screen \in Screens /\ Done) =>
        /\ totalPages >= 1
        /\ currentPage >= 1
        /\ currentPage <= totalPages
C14_Witness ==
    /\ screen = "ManageReviewsPage"
    /\ Done
    /\ screenPage = 9
    /\ listLength = 12
    /\ totalPages = 3
    /\ currentPage = 3

\* C18: getProductBannerFlag(product) returns product.isNew when no entry is
\* stored for product.id, the value v after setProductBannerFlag(id, v)
\* whatever product.isNew is, product.isNew again after
\* removeProductBannerFlag(id); a write for one id changes the flag read for
\* no other id.
ExpectedBannerFlag(id, isNew) ==
    IF bannerHistory[id].op = "set" THEN bannerHistory[id].value ELSE isNew
DisabledByAdmin(id) == serverProducts[id].isEnabled = FALSE
ShownOnHomePage(id) ==
    /\ route = "/"
    /\ \E item \in visibleProducts \cup bannerProducts : item.id = id
ShownOnDetail(id) ==
    /\ route = "/producto/:id"
    /\ detailProduct = id
C20_DisabledNeverShown ==
    \A id \in ProductIds :
        DisabledByAdmin(id) => (~ShownOnHomePage(id) /\ ~ShownOnDetail(id))

\* C21 as claimed: after the admin has logged out through either logout
\* control and until a new token is stored, authService.hasToken() is false
\* and no protected route is rendered: each of them redirects to /login.
LoggedOut == loggedOut # "no"
C21_LogoutRevokesAccess ==
    LoggedOut =>
        /\ ~hasToken(tokenStorage)
        /\ location \notin ProtectedPaths
        /\ \A path \in ProtectedPaths :
              ProtectedRoute(path, hasToken(tokenStorage)) = "/login"

\* C22: when an admin operation fails with status 401 the stored token and
\* the '@fl_store_auth' item are both removed, so hasToken() is false; when
\* it fails for another reason (another status, no response, no token) the
\* stored token is left as it was; either way it resolves to its failure
\* value (null, false or []).
Failed == lastCall.error # "none"
C22_UnauthorizedClearsToken ==
    Failed =>
        /\ lastCall.value = FailureValue(lastCall.op)
        /\ lastCall.value \in {"null", "false", "[]"}
        /\ lastCall.error = "401" =>
              /\ tokenStorage = NoToken
              /\ authStorage = FALSE
              /\ ~hasToken(tokenStorage)
        /\ lastCall.error # "401" => tokenStorage = lastCall.tokenBefore
C22_Witness ==
    /\ lastCall = [op |-> "deleteProduct", sent |-> FALSE, error |-> "401",
                   value |-> "false", tokenBefore |-> StoredToken(<<"t">>)]
    /\ tokenStorage = NoToken
    /\ location = "/admin/productos"

\* C23: without a non-blank stored token no admin operation sends a request:
\* it resolves to its failure value at once; and every request an admin
\* operation sends carries 'Authorization: Bearer <token>'.
NonBlank(item) ==
    item.present /\ \E i \in 1..Len(item.text) : item.text[i] # " "
Called == lastCall.value = "pending" \/ lastCall.error = "no token"
C23_NoTokenNoRequest ==
    /\ (Called /\ ~NonBlank(lastCall.tokenBefore)) =>
          /\ ~lastCall.sent
          /\ inFlight = NoRequest
          /\ lastCall.value = FailureValue(lastCall.op)
    /\ lastCall.sent =>
          /\ NonBlank(lastCall.tokenBefore)
          /\ inFlight.op = lastCall.op
    /\ inFlight # NoRequest =>
          inFlight.Authorization = <<"B", "e", "a", "r", "e", "r", " ", "t">>
C23_Witness ==
    /\ lastCall = [op |-> "getPushTokenStats", sent |-> FALSE, error |-> "no token",
                   value |-> "null", tokenBefore |-> StoredToken(<<" ">>)]
    /\ inFlight = NoRequest
    /\ location = "/admin"

\* C24: an update that fails (updateProduct in the ManageProductsPage toggle,
\* updateReviewStatus in ManageReviewsPage) leaves the displayed list and the
\* stored banner map exactly as they were; one that succeeds replaces exactly
\* the entry with the matching id by the response and changes no other entry.
Resolved == lastUpdate.id # "none"
MatchingEntries(list, id) == {i \in 1..Len(list) : list[i].id = id}
C24_AlertAndStop ==
    Resolved =>
        IF ~lastUpdate.ok
        THEN /\ adminList = lastUpdate.listBefore
             /\ bannerStorage = lastUpdate.bannerBefore
        ELSE /\ Len(adminList) = Len(lastUpdate.listBefore)
             /\ Cardinality(MatchingEntries(lastUpdate.listBefore, lastUpdate.id)) = 1
             /\ \A i \in 1..Len(adminList) :
                   IF lastUpdate.listBefore[i].id = lastUpdate.id
                   THEN adminList[i] = lastUpdate.updated
                   ELSE adminList[i] = lastUpdate.listBefore[i]
C24_Witness ==
    /\ adminScreen = "ManageProductsPage"
    /\ lastUpdate.id = "p2"
    /\ lastUpdate.ok
    /\ lastUpdate.listBefore[2] = [id |-> "p2", isEnabled |-> TRUE, version |-> "v1"]
    /\ adminList[2] = [id |-> "p2", isEnabled |-> FALSE, version |-> "v2"]
    /\ adminList[1] = lastUpdate.listBefore[1]
    /\ pendingUpdates # {}

\* C25 as claimed: while a setReviewLike request for a review is in flight
\* that review's like button is disabled, so no review ever has a second
\* like request started before its first one has completed.
C25_OneLikeInFlight ==
    \A reviewId \in ShownReviews :
        /\ likesInFlight[reviewId] > 0 => isUpdatingLike(reviewId)
        /\ likesInFlight[reviewId] <= 1

\* C26 as claimed: after any sequence of press events (mousedown, touchstart)
\* and release events (mouseup, mouseleave, touchend), the callback never
\* fires for a press that was followed by a release before its 3000 ms
\* elapsed.
C26_ReleasedPressNeverFires ==
    \A id \in TimerIds : timers[id].released => timers[id].state # "fired"

\* C27 as claimed: for one browser storage and one Ecuador calendar day, at
\* most one registerVisit request is sent over any sequence or interleaving
\* of HomePage loads; every other load of that day only reads
\* getPublicMetrics.
C27_OneVisitPerDay ==
    \A day \in Days : registerVisits[day] <= 1

\* C28: on the HomePage catalog, after any sequence of searches, category
\* selections, sort changes and page clicks, 'Anterior' clicked while the
\* displayed page is above 1 shows that page minus one, and 'Siguiente'
\* clicked while it is below totalPages shows that page plus one; the stored
\* page never exceeds totalPages.
C28_PreviousAndNext ==
    /\ screenPage <= totalPages
    /\ (lastClick.button = "Anterior" /\ lastClick.displayed > 1) =>
          currentPage = lastClick.displayed - 1
    /\ (lastClick.button = "Siguiente" /\ lastClick.displayed < lastClick.total) =>
          currentPage = lastClick.displayed + 1
C28_Witness ==
    /\ lastClick = [button |-> "Anterior", displayed |-> 3, total |-> 3]
    /\ currentPage = 2
    /\ searchText = <<"a">>
    /\ sortField = "price"

\* C29: the category list never holds two entries that are equal once trimmed
\* and lower-cased and never holds a blank entry; a load keeps, for each
\* category, the first spelling among the fetched products; a successful
\* submission keeps every entry the list had, and leaves the list unchanged
\* when the submitted category differs from an entry only by case or
\* surrounding whitespace. The same holds of the categories HomePage derives
\* from the same products.
CategoryKey(text) == toLowerCase(Trim(text))
Deduplicated(list) ==
    /\ \A i, j \in 1..Len(list) : CategoryKey(list[i]) = CategoryKey(list[j]) => i = j
    /\ \A i \in 1..Len(list) : Trim(list[i]) # <<>>
FirstSpellings(list, products) ==
    \A i \in 1..Len(list) :
        \E k \in 1..Len(products) :
            /\ list[i] = Trim(products[k].category)
            /\ \A earlier \in 1..(k - 1) :
                  CategoryKey(products[earlier].category) # CategoryKey(list[i])
C29_CategoriesDeduplicated ==
    /\ Deduplicated(adminCategories)
    /\ Deduplicated(Tail(HomeCategories(fetchedProducts)))
    /\ FirstSpellings(Tail(HomeCategories(fetchedProducts)), fetchedProducts)
    /\ lastCategoryStep.op = "load" => FirstSpellings(adminCategories, fetchedProducts)
    /\ lastCategoryStep.op = "failed" => adminCategories = lastCategoryStep.prev
    /\ lastCategoryStep.op = "submit" =>
          /\ \A i \in 1..Len(lastCategoryStep.prev) :
                \E j \in 1..Len(adminCategories) :
                    adminCategories[j] = lastCategoryStep.prev[i]
          /\ (\E i \in 1..Len(lastCategoryStep.prev) :
                  CategoryKey(lastCategoryStep.prev[i])
                      = CategoryKey(lastCategoryStep.normalizedCategory))
                => adminCategories = lastCategoryStep.prev
C29_Witness ==
    /\ lastCategoryStep.op = "submit"
    /\ lastCategoryStep.normalizedCategory = <<"A">>
    /\ lastCategoryStep.prev = <<<<"a">>, <<"B">>>>
    /\ adminCategories = <<<<"a">>, <<"B">>>>
    /\ Len(fetchedProducts) = MaxFetched

\* C30: when the key is absent or holds the empty string, text that is not
\* JSON, JSON null, or a JSON number, string or boolean, getProductBannerFlag
\* returns product.isNew and isProductEnabled returns true, without throwing.
BadKinds == {"absent", "empty", "text", "null", "number", "string", "boolean"}
C30_BadStorageReadsDefault ==
    /\ (rawRead.fn = "getProductBannerFlag" /\ rawBanner.kind \in BadKinds) =>
          ~rawRead.threw /\ rawRead.value = rawRead.isNew
    /\ (rawRead.fn = "isProductEnabled" /\ rawStatus.kind \in BadKinds) =>
          ~rawRead.threw /\ rawRead.value = TRUE

====
